---- MODULE Spec2Model ----
(***************************************************************************)
(* Model of the weather data access layer of loganweather:                 *)
(* src/lib/weather-pipeline.ts (snapshot cache and retry wrapper) in front  *)
(* of the upstream aggregator of src/lib/nws.ts.                            *)
(*                                                                          *)
(* Time is the value of Date.now() in milliseconds.  The program runs on    *)
(* one JavaScript event loop: a promise reaction (the .then / .finally      *)
(* callbacks of a bucket's fetch, the continuation of an awaiting request)  *)
(* is a microtask, and the microtask queue drains before the loop takes the *)
(* next timer or network completion.  Timers, aggregator completions and    *)
(* the passage of clock time are therefore enabled only when no microtask   *)
(* is pending; a new request may start at any point.                        *)
(*                                                                          *)
(* The subscriber store of src/lib/subscribers.ts and the digest run of the *)
(* digest route are modelled next to it: data/subscribers.json is read and  *)
(* written whole, without a lock, and every await of a store operation is a *)
(* point where another operation may run.                                   *)
(***************************************************************************)
EXTENDS Integers, Sequences, FiniteSets, TLC

VARIABLES
    now,            \* Date.now(), ms
    ticks,          \* number of clock advances taken so far (bounds the run)
    cacheBuckets,   \* the module-level Map: bucket key -> CacheBucket
    fetches,        \* every fetcher() invocation: the retry loop and its promise chain
    requests,       \* every getSnapshotForBucket call: its locals and its response
    upstream,       \* what the weather service answers to one aggregator invocation
    agg,            \* one invocation of nws.ts getWeatherByCoords: position, locals, result
    probe,          \* arguments and results of a function applied on its own
    file,           \* data/subscribers.json: the array of Subscriber records
    calls,          \* every call of a subscriber-store operation or digest run
    clock,          \* new Date(), in hours since an epoch midnight UTC
    outbox,         \* every email handed to sendEmail and accepted by it
    tokens          \* number of tokens generateToken has produced

vars == <<now, ticks, cacheBuckets, fetches, requests, upstream, agg, probe,
          file, calls, clock, outbox, tokens>>

\* The subscriber store and the digest runs.
storeVars == <<file, calls, clock, outbox, tokens>>

\* The state outside the snapshot cache, which no cache operation touches.
libVars == <<upstream, agg, probe, storeVars>>

\* No subscriber file in use, no store operation called.
StoreIdle ==
    /\ file = <<>>
    /\ calls = <<>>
    /\ clock = 0
    /\ outbox = {}
    /\ tokens = 0

----------------------------------------------------------------------------
(* Program constants *)

CACHE_TTL_MS == 5 * 60 * 1000
STALE_TTL_MS == 30 * 60 * 1000

\* Variant: one retry instead of two.
attemptsShort == <<0, 300>>

\* Variant: the two delays are exchanged.
attemptsSwapped == <<0, 800, 300>>

\* const attempts = [0, 300, 800]
attempts == <<0, 300, 800>>

\* Coordinates are integers in units of 1e-4 degree: 40.7128 is 407128.
NYC_COORDS == [lat |-> 407128, lon |-> -740060]

----------------------------------------------------------------------------
(* Bounds of the model *)

\* The number of requests made, and the number of clock advances made while
\* no sleep timer is pending.
MaxRequests == 2
MaxTicks == 2

\* Clock advances while no sleep timer is pending: a short one, one that ends
\* the fresh window exactly, and one that lands 800 ms before the end of the
\* stale window.  While a timer is pending the clock advances to its due time.
Deltas == {800, CACHE_TTL_MS, STALE_TTL_MS - 800}

\* What callers of getWeatherSnapshotByCoords pass (lat, lon, overrideName):
\* the default location's own coordinates without a name, and a second point
\* of the same 3-decimal cell under the name "Home".  <<>> is "no override".
CoordInputs == {<<407128, -740060, <<>>>>, <<407131, -740060, <<"Home">>>>}

----------------------------------------------------------------------------
(* Values *)

Null == <<>>
Some(x) == <<x>>

\* The caller's location argument: the default location or a coordinate pair.
DefaultLoc == [kind |-> "default", lat |-> 0, lon |-> 0]
CoordLoc(lat, lon) == [kind |-> "coords", lat |-> lat, lon |-> lon]

Abs(x) == IF x < 0 THEN -x ELSE x

\* Number.prototype.toFixed(3) of a coordinate given in 1e-4 degree: the sign
\* character and the magnitude in thousandths, rounded half up.  A negative
\* value keeps its "-" even when the magnitude rounds to zero.
toFixed3(x) == <<IF x < 0 THEN "-" ELSE "", (Abs(x) + 5) \div 10>>

\* Variant: the default location's own cell is served from the default bucket.
CoordsKeyDefaultCell(lat, lon) ==
    IF <<toFixed3(lat), toFixed3(lon)>> = <<toFixed3(NYC_COORDS.lat), toFixed3(NYC_COORDS.lon)>>
    THEN <<"default">>
    ELSE <<"coords:", toFixed3(lat), ",", toFixed3(lon)>>

\* `coords:${lat.toFixed(3)},${lon.toFixed(3)}` and "default", as token sequences.
CoordsKey(lat, lon) == <<"coords:", toFixed3(lat), ",", toFixed3(lon)>>
DefaultKey == <<"default">>

\* new Date(ms).toISOString(): hours, minutes, seconds and milliseconds since
\* the model's epoch.
toISOString(t) == <<t \div 3600000, (t \div 60000) % 60, (t \div 1000) % 60, t % 1000>>

\* The payload one aggregator invocation returns: `call` identifies the
\* invocation (fetch number, attempt number) whose upstream responses it merges.
\* getNewYorkWeather aggregates NYC_COORDS under the name "New York, NY";
\* getWeatherByCoords(lat, lon) derives the name from the point metadata.
getNewYorkWeather(call) ==
    [call |-> call, name |-> "New York, NY", lat |-> NYC_COORDS.lat, lon |-> NYC_COORDS.lon]

getWeatherByCoords(call, lat, lon) ==
    [call |-> call, name |-> "City, ST", lat |-> lat, lon |-> lon]

\* The value of the attempt's aggregator call inside fetchWithRetry.
AggregatorResult(call, loc) ==
    IF loc.kind = "coords"
    THEN getWeatherByCoords(call, loc.lat, loc.lon)
    ELSE getNewYorkWeather(call)

\* The Error an aggregator invocation rejects with.
AggregatorError(call) == [call |-> call]

----------------------------------------------------------------------------
(* weather-pipeline.ts: helpers *)

NewBucket == [cache |-> Null, lastGood |-> Null, inFlight |-> 0]

\* Variant: the lookup evicts every other bucket.
getBucketEvicting(key) ==
    [k \in {key} |-> IF k \in DOMAIN cacheBuckets THEN cacheBuckets[k] ELSE NewBucket]

\* Variant: every lookup hands out a new, empty bucket.
getBucketReset(key) ==
    [k \in DOMAIN cacheBuckets \cup {key} |->
        IF k \in DOMAIN cacheBuckets \ {key} THEN cacheBuckets[k] ELSE NewBucket]

\* getBucket: the map after the lookup, with the bucket created if missing.
getBucket(key) ==
    [k \in DOMAIN cacheBuckets \cup {key} |->
        IF k \in DOMAIN cacheBuckets THEN cacheBuckets[k] ELSE NewBucket]

\* Variant: the fresh window includes its end point.
IsFreshInclusive(bucket, t) ==
    bucket.cache # Null /\ t - bucket.cache[1].fetchedAt <= CACHE_TTL_MS

\* bucket.cache && now - bucket.cache.fetchedAt < CACHE_TTL_MS
IsFresh(bucket, t) ==
    bucket.cache # Null /\ t - bucket.cache[1].fetchedAt < CACHE_TTL_MS

\* Variant: the in-flight marker is not consulted.
AlwaysStartFetch(bucket) == TRUE

\* !bucket.inFlight
ShouldStartFetch(bucket) == bucket.inFlight = 0

\* Variant: only the fresh entry is stored.
ThenCallbackCacheOnly(bucket, data, t) ==
    [bucket EXCEPT !.cache = Some([data |-> data, fetchedAt |-> t])]

\* The .then callback: bucket.cache = bucket.lastGood = {data, fetchedAt}.
ThenCallback(bucket, data, t) ==
    [bucket EXCEPT !.cache = Some([data |-> data, fetchedAt |-> t]),
                   !.lastGood = Some([data |-> data, fetchedAt |-> t])]

\* Variant: the marker is left in place.
FinallyCallbackKeeps(bucket) == bucket

\* The .finally callback: bucket.inFlight = null.
FinallyCallback(bucket) == [bucket EXCEPT !.inFlight = 0]

\* Variant: the first error is kept.
CatchFirstError(lastError, error) == IF lastError = Null THEN Some(error) ELSE lastError

\* catch (error) { lastError = error }
CatchError(lastError, error) == Some(error)

\* if (!overrideName) return data: null, undefined and "" are no override.
applyOverrideName(data, overrideName) ==
    IF overrideName = Null \/ overrideName[1] = ""
    THEN data
    ELSE [data EXCEPT !.name = overrideName[1]]

\* Variant: the name is written into the object passed in.
applyOverrideNameInPlace(data, overrideName) == applyOverrideName(data, overrideName)

\* The object passed to applyOverrideName, after the call: the two spreads
\* copy it and its location, the object itself is not written.
applyOverrideNameArgument(data, overrideName) == data

\* A payload object is shared by reference: by the settled value of the fetch
\* that produced it and by the bucket entries that store it.  These are the
\* holders after applyOverrideName was applied to the object `used` (none
\* when the response carries no data).
HeldAfterOverride(holder, used, overrideName) ==
    IF used # Null /\ holder # Null /\ holder[1].call = used[1].call
    THEN Some(applyOverrideNameArgument(holder[1], overrideName))
    ELSE holder

EntryAfterOverride(entry, used, overrideName) ==
    IF entry = Null
    THEN entry
    ELSE Some([entry[1] EXCEPT
                 !.data = HeldAfterOverride(Some(@), used, overrideName)[1]])

BucketsAfterOverride(buckets, used, overrideName) ==
    [k \in DOMAIN buckets |->
        [buckets[k] EXCEPT !.cache = EntryAfterOverride(@, used, overrideName),
                           !.lastGood = EntryAfterOverride(@, used, overrideName)]]

FetchesAfterOverride(used, overrideName) ==
    [f \in DOMAIN fetches |->
        [fetches[f] EXCEPT !.value = HeldAfterOverride(@, used, overrideName)]]

\* Variant: the age is taken the wrong way round.
buildMetaReversed(source, fetchedAt) ==
    [source |-> source, fetchedAt |-> toISOString(fetchedAt), ageMs |-> fetchedAt - now]

\* buildMeta: ageMs is Date.now() at the time the response is built.
buildMeta(source, fetchedAt) ==
    [source |-> source, fetchedAt |-> toISOString(fetchedAt), ageMs |-> now - fetchedAt]

\* A request's response: {data, meta}, or the error it throws.
Pending == [status |-> "pending", data |-> Null, meta |-> Null, error |-> Null]
Returned(data, meta) == [status |-> "ok", data |-> Some(data), meta |-> Some(meta), error |-> Null]
Thrown(error) == [status |-> "error", data |-> Null, meta |-> Null, error |-> Some(error)]

\* Variant: the request's arrival time is reported.
LiveFetchedAtArrival(bucket, req) == req.now

\* const fetchedAt = bucket.cache?.fetchedAt ?? Date.now()
LiveFetchedAt(bucket, req) ==
    IF bucket.cache # Null THEN bucket.cache[1].fetchedAt ELSE now

\* const fallback = bucket.lastGood ?? bucket.cache
Fallback(bucket) == IF bucket.lastGood # Null THEN bucket.lastGood ELSE bucket.cache

\* Variant: the fallback is held to the fresh window.
FallbackUsableFresh(fallback, reqNow) ==
    fallback # Null /\ reqNow - fallback[1].fetchedAt < CACHE_TTL_MS

\* fallback && now - fallback.fetchedAt < STALE_TTL_MS, `now` being the
\* request's local taken on arrival.
FallbackUsable(fallback, reqNow) ==
    fallback # Null /\ reqNow - fallback[1].fetchedAt < STALE_TTL_MS

----------------------------------------------------------------------------
(* State *)

\* Positions of a fetch: the retry loop is in an aggregator call or in a sleep;
\* fetchWithRetry has returned (and .then has run) or thrown, .finally not yet
\* run; the promise stored in bucket.inFlight has settled.
Running == {"calling", "sleeping"}
Unsettled == {"calling", "sleeping", "fulfilled", "rejected"}
Settled == {"settled_ok", "settled_err"}

\* A reaction of some promise is queued: a fetch whose .finally has not run,
\* or a request whose awaited promise has settled.
MicrotasksPending ==
    \/ \E f \in DOMAIN fetches : fetches[f].pc \in {"fulfilled", "rejected"}
    \/ \E r \in DOMAIN requests :
          requests[r].pc = "awaiting" /\ fetches[requests[r].awaiting].pc \in Settled

Init ==
    /\ StoreIdle
    /\ now = 0
    /\ ticks = 0
    /\ cacheBuckets = [k \in {} |-> NewBucket]
    /\ fetches = <<>>
    /\ requests = <<>>
    /\ upstream = Null
    /\ agg = Null
    /\ probe = Null

\* fetcher() is called: fetchWithRetry runs to its first await, which is the
\* first aggregator invocation (attempts[0] = 0 means no sleep before it).
\* `outcomes` and `before` are history: the results of the aggregator
\* invocations so far, and the bucket's entries when the fetch started.
NewFetch(key, loc, bucket) ==
    [key |-> key, loc |-> loc, pc |-> "calling", calls |-> 1, wakeAt |-> 0,
     lastError |-> Null, value |-> Null, fetchedAt |-> -1,
     outcomes |-> <<>>, before |-> <<bucket.cache, bucket.lastGood>>]

----------------------------------------------------------------------------
(* Operations *)

\* getSnapshotForBucket, from its call to its first await (or its return on
\* a fresh hit).  `started` and `doneAt` are history: whether this call invoked
\* the fetcher, and the clock when it returned or threw.
getSnapshotForBucket(bucketKey, loc, overrideName) ==
    LET buckets == getBucket(bucketKey)
        bucket == buckets[bucketKey]
        fid == Len(fetches) + 1
        req == [key |-> bucketKey, loc |-> loc, overrideName |-> overrideName,
                now |-> now, pc |-> "awaiting", awaiting |-> 0,
                started |-> FALSE, resp |-> Pending, doneAt |-> -1]
    IN  /\ Len(requests) < MaxRequests
        /\ IF IsFresh(bucket, now)
           THEN /\ requests' = Append(requests,
                      [req EXCEPT !.pc = "done", !.doneAt = now,
                                  !.resp = Returned(
                                      applyOverrideName(bucket.cache[1].data, overrideName),
                                      buildMeta("cache", bucket.cache[1].fetchedAt))])
                /\ cacheBuckets' =
                      BucketsAfterOverride(buckets, Some(bucket.cache[1].data), overrideName)
                /\ fetches' = FetchesAfterOverride(Some(bucket.cache[1].data), overrideName)
           ELSE IF ShouldStartFetch(bucket)
           THEN /\ fetches' = Append(fetches, NewFetch(bucketKey, loc, bucket))
                /\ cacheBuckets' = [buckets EXCEPT ![bucketKey].inFlight = fid]
                /\ requests' = Append(requests,
                      [req EXCEPT !.awaiting = fid, !.started = TRUE])
           ELSE /\ requests' = Append(requests, [req EXCEPT !.awaiting = bucket.inFlight])
                /\ cacheBuckets' = buckets
                /\ UNCHANGED fetches
        /\ UNCHANGED <<libVars, now, ticks>>

getWeatherSnapshot ==
    getSnapshotForBucket(DefaultKey, DefaultLoc, Null)

getWeatherSnapshotByCoords ==
    \E c \in CoordInputs :
        getSnapshotForBucket(CoordsKey(c[1], c[2]), CoordLoc(c[1], c[2]), c[3])

\* An aggregator invocation resolves: fetchWithRetry returns its value and the
\* .then callback stores it in the bucket.
AttemptResolves ==
    \E f \in DOMAIN fetches :
        LET F == fetches[f]
            data == AggregatorResult(<<f, F.calls>>, F.loc)
        IN  /\ ~MicrotasksPending
            /\ F.pc = "calling"
            /\ fetches' = [fetches EXCEPT ![f] =
                    [F EXCEPT !.pc = "fulfilled", !.value = Some(data),
                              !.fetchedAt = now,
                              !.outcomes = Append(F.outcomes, "ok")]]
            /\ cacheBuckets' = [cacheBuckets EXCEPT ![F.key] = ThenCallback(@, data, now)]
            /\ UNCHANGED <<libVars, now, ticks, requests>>

\* An aggregator invocation rejects: the error is kept; the loop sleeps before
\* the next attempt, or throws the kept error when no attempt is left.
AttemptRejects ==
    \E f \in DOMAIN fetches :
        LET F == fetches[f]
            err == CatchError(F.lastError, AggregatorError(<<f, F.calls>>))
            more == F.calls < Len(attempts)
        IN  /\ ~MicrotasksPending
            /\ F.pc = "calling"
            /\ fetches' = [fetches EXCEPT ![f] =
                    [F EXCEPT !.lastError = err,
                              !.outcomes = Append(F.outcomes, "fail"),
                              !.pc = IF more THEN "sleeping" ELSE "rejected",
                              !.wakeAt = IF more THEN now + attempts[F.calls + 1] ELSE @]]
            /\ UNCHANGED <<libVars, now, ticks, cacheBuckets, requests>>

\* Variant: the sleep promise is never resolved when its timer fires.
SleepNeverResolves ==
    \E f \in DOMAIN fetches :
        LET F == fetches[f]
        IN  /\ ~MicrotasksPending
            /\ F.pc = "sleeping"
            /\ now >= F.wakeAt
            /\ fetches' = [fetches EXCEPT ![f] = [F EXCEPT !.pc = "hung", !.wakeAt = 0]]
            /\ UNCHANGED <<libVars, now, ticks, cacheBuckets, requests>>

\* The sleep timer fires: the next attempt calls the aggregator again.
SleepElapses ==
    \E f \in DOMAIN fetches :
        LET F == fetches[f]
        IN  /\ ~MicrotasksPending
            /\ F.pc = "sleeping"
            /\ now >= F.wakeAt
            /\ fetches' = [fetches EXCEPT ![f] =
                    [F EXCEPT !.pc = "calling", !.calls = @ + 1, !.wakeAt = 0]]
            /\ UNCHANGED <<libVars, now, ticks, cacheBuckets, requests>>

\* Variant: a rejected chain also drops the bucket's entries.
FinallyInvalidatesOnFailure ==
    \E f \in DOMAIN fetches :
        LET F == fetches[f]
        IN  /\ F.pc \in {"fulfilled", "rejected"}
            /\ cacheBuckets' = [cacheBuckets EXCEPT ![F.key] =
                    IF F.pc = "rejected" THEN NewBucket ELSE FinallyCallback(@)]
            /\ fetches' = [fetches EXCEPT ![f].pc =
                    IF F.pc = "fulfilled" THEN "settled_ok" ELSE "settled_err"]
            /\ UNCHANGED <<libVars, now, ticks, requests>>

\* Variant: the callback clears the marker of every bucket.
FinallyClearsAll ==
    \E f \in DOMAIN fetches :
        LET F == fetches[f]
        IN  /\ F.pc \in {"fulfilled", "rejected"}
            /\ cacheBuckets' = [k \in DOMAIN cacheBuckets |-> FinallyCallback(cacheBuckets[k])]
            /\ fetches' = [fetches EXCEPT ![f].pc =
                    IF F.pc = "fulfilled" THEN "settled_ok" ELSE "settled_err"]
            /\ UNCHANGED <<libVars, now, ticks, requests>>

\* The .finally callback of a bucket's promise chain, after which the promise
\* stored in bucket.inFlight settles.
Finally ==
    \E f \in DOMAIN fetches :
        LET F == fetches[f]
        IN  /\ F.pc \in {"fulfilled", "rejected"}
            /\ cacheBuckets' = [cacheBuckets EXCEPT ![F.key] = FinallyCallback(@)]
            /\ fetches' = [fetches EXCEPT ![f].pc =
                    IF F.pc = "fulfilled" THEN "settled_ok" ELSE "settled_err"]
            /\ UNCHANGED <<libVars, now, ticks, requests>>

\* The continuation of `await bucket.inFlight` in the try block.
LiveResponse(bucket, req, data) ==
    Returned(applyOverrideName(data, req.overrideName),
             buildMeta("live", LiveFetchedAt(bucket, req)))

\* The catch block: the fallback if usable, else the error is rethrown.
CatchResponse(bucket, req, error) ==
    LET fallback == Fallback(bucket)
    IN  IF FallbackUsable(fallback, req.now)
        THEN Returned(applyOverrideName(fallback[1].data, req.overrideName),
                      buildMeta("stale", fallback[1].fetchedAt))
        ELSE Thrown(error)

Resume ==
    \E r \in DOMAIN requests :
        LET R == requests[r]
            F == fetches[R.awaiting]
            bucket == cacheBuckets[R.key]
            resp == IF F.pc = "settled_ok"
                    THEN LiveResponse(bucket, R, F.value[1])
                    ELSE CatchResponse(bucket, R, F.lastError[1])
            used == IF F.pc = "settled_ok" THEN F.value
                    ELSE IF resp.status = "ok" THEN Some(Fallback(bucket)[1].data)
                    ELSE Null
        IN  /\ R.pc = "awaiting"
            /\ F.pc \in Settled
            /\ requests' = [requests EXCEPT ![r] =
                    [R EXCEPT !.pc = "done", !.doneAt = now, !.resp = resp]]
            /\ cacheBuckets' = BucketsAfterOverride(cacheBuckets, used, R.overrideName)
            /\ fetches' = FetchesAfterOverride(used, R.overrideName)
            /\ UNCHANGED <<libVars, now, ticks>>

\* The due times of the pending sleep timers.
SleepDeadlines ==
    {fetches[f].wakeAt : f \in {g \in DOMAIN fetches : fetches[g].pc = "sleeping"}}

Min(S) == CHOOSE x \in S : \A y \in S : x <= y

\* Variant: the passing of time releases every bucket's in-flight slot.
TickReleasesSlot ==
    \E d \in IF SleepDeadlines = {} THEN Deltas ELSE {Min(SleepDeadlines) - now} :
        /\ ~MicrotasksPending
        /\ \A w \in SleepDeadlines : now < w
        /\ SleepDeadlines = {} => ticks < MaxTicks
        /\ now' = now + d
        /\ ticks' = IF SleepDeadlines = {} THEN ticks + 1 ELSE ticks
        /\ cacheBuckets' = [k \in DOMAIN cacheBuckets |->
                                [cacheBuckets[k] EXCEPT !.inFlight = 0]]
        /\ UNCHANGED <<libVars, fetches, requests>>

\* Clock time passes.  A sleep timer fires when it is due: the clock does not
\* pass a pending timer's due time, and does not advance while one is due.
\* MaxTicks bounds the advances made while no timer is pending; the advance
\* to a pending timer's due time is always possible.
Tick ==
    \E d \in IF SleepDeadlines = {} THEN Deltas ELSE {Min(SleepDeadlines) - now} :
        /\ ~MicrotasksPending
        /\ \A w \in SleepDeadlines : now < w
        /\ SleepDeadlines = {} => ticks < MaxTicks
        /\ now' = now + d
        /\ ticks' = IF SleepDeadlines = {} THEN ticks + 1 ELSE ticks
        /\ UNCHANGED <<libVars, cacheBuckets, fetches, requests>>

Next ==
    \/ getWeatherSnapshot
    \/ getWeatherSnapshotByCoords
    \/ AttemptResolves
    \/ AttemptRejects
    \/ SleepElapses
    \/ Finally
    \/ Resume
    \/ Tick

Spec == Init /\ [][Next]_vars

\* The cache under the assumptions of a running event loop: every aggregator
\* invocation is answered, queued promise reactions run, and time passes
\* until a pending timer fires.  Requests need not arrive.
SpecLive ==
    /\ Spec
    /\ WF_vars(AttemptResolves \/ AttemptRejects)
    /\ WF_vars(SleepElapses)
    /\ WF_vars(Finally)
    /\ WF_vars(Resume)
    /\ WF_vars(Tick /\ SleepDeadlines # {})

----------------------------------------------------------------------------
(* Bucket key derivation on its own: two calls of getWeatherSnapshotByCoords, *)
(* of which only the key each one computes is followed.                       *)

\* Latitudes and longitudes (1e-4 degree) the two callers pass: values on both
\* sides of zero inside and outside the cell of 0.000, two neighbours of one
\* negative cell, and the two points of CoordInputs.  None lies on a cell
\* boundary, where the binary value of the double decides.
KeyCoords == {-740060, -16, -14, -4, 4, 14, 16, 407128, 407131}

InitKey ==
    /\ StoreIdle
    /\ now = 0
    /\ ticks = 0
    /\ cacheBuckets = [k \in {} |-> NewBucket]
    /\ fetches = <<>>
    /\ requests = <<>>
    /\ upstream = Null
    /\ agg = Null
    /\ probe \in {[a |-> a, b |-> b, keys |-> Null] :
                     a \in KeyCoords \X KeyCoords, b \in KeyCoords \X KeyCoords}

\* const key = `${lat.toFixed(3)},${lon.toFixed(3)}`, in both calls.
DeriveBucketKeys ==
    /\ probe.keys = Null
    /\ probe' = [probe EXCEPT !.keys =
                    Some(<<CoordsKey(probe.a[1], probe.a[2]),
                           CoordsKey(probe.b[1], probe.b[2])>>)]
    /\ UNCHANGED <<now, ticks, cacheBuckets, fetches, requests, upstream, agg, storeVars>>

NextKey == DeriveBucketKeys

SpecKey == InitKey /\ [][NextKey]_vars

----------------------------------------------------------------------------
(* nws.ts: one invocation of the upstream aggregator, followed from its     *)
(* call to its result, against one fixed set of answers of the weather      *)
(* service.                                                                 *)
(*                                                                          *)
(* Observed and hourly measurements are fixed point with one decimal: the   *)
(* integer 215 stands for 21.5.  Pressure (Pa) and visibility (m) are whole *)
(* numbers, as are the forecast temperatures (degrees Fahrenheit).  Times   *)
(* are whole hours since 2024-01-01T00:00Z.                                 *)

\* The UTC offset of NWS_TIMEZONE = "America/New_York" over the model's days
\* (January: no daylight saving), in hours.
NWS_TIMEZONE == -5

\* slice(0, 48) of the hourly periods and slice(0, 7) of the folded days.
HourlyCap == 48
DailyCap == 7

\* Math.round(n / d) for d > 0: the nearest integer, halves rounded up.
MathRound(n, d) == (2 * n + d) \div (2 * d)

\* a ?? b
Coalesce(a, b) == IF a # Null THEN a ELSE b

\* round(value): null stays null.
round(value) ==
    IF value = Null THEN Null ELSE Some(MathRound(value[1], 10))

\* Variant: the fraction is cut off instead of rounded.
cToFTruncated(value) ==
    IF value = Null THEN Null ELSE Some((18 * value[1] + 3200) \div 100)

\* round(value * (9 / 5) + 32)
cToF(value) ==
    IF value = Null THEN Null ELSE Some(MathRound(18 * value[1] + 3200, 100))

\* round(value * 2.23694)
mpsToMph(value) ==
    IF value = Null THEN Null ELSE Some(MathRound(223694 * value[1], 1000000))

\* round(value / 1609.34, 1), in tenths of a mile
metersToMiles(value) ==
    IF value = Null THEN Null ELSE Some(MathRound(1000 * value[1], 160934))

\* round(value * 0.0002953, 2), in hundredths of an inch
pascalToInHg(value) ==
    IF value = Null THEN Null ELSE Some(MathRound(2953 * value[1], 100000))

\* The % of JavaScript: the result has the sign of the dividend.
JsRem(a, b) == IF a >= 0 THEN a % b ELSE -((-a) % b)

directions ==
    <<"N", "NNE", "NE", "ENE", "E", "ESE", "SE", "SSE",
      "S", "SSW", "SW", "WSW", "W", "WNW", "NW", "NNW">>

\* The value of an array read outside the array.
Undefined == <<"undefined", "undefined">>

\* Variant: the index is not reduced modulo 16.
degreesToCardinalNoWrap(value) ==
    IF value = Null
    THEN Null
    ELSE LET index == MathRound(value[1], 225)
         IN  IF index >= 0 /\ index < 16 THEN Some(directions[index + 1]) ELSE Undefined

\* directions[Math.round(value / 22.5) % 16]
degreesToCardinal(value) ==
    IF value = Null
    THEN Null
    ELSE LET index == JsRem(MathRound(value[1], 225), 16)
         IN  IF index >= 0 THEN Some(directions[index + 1]) ELSE Undefined

\* formatDateKey: the calendar date of the instant in NWS_TIMEZONE, as
\* <<month, day, year>>.  The model's instants lie in the last days of
\* December 2023 and in January 2024.
formatDateKey(iso) ==
    LET day == (iso + NWS_TIMEZONE) \div 24
    IN  IF day < 0 THEN <<12, 32 + day, 2023>> ELSE <<1, day + 1, 2024>>

\* seq.slice(0, n)
slice(seq, n) == SubSeq(seq, 1, IF Len(seq) < n THEN Len(seq) ELSE n)

\* A settled promise: its value or the Error it rejects with.
Resolved(value) == [ok |-> TRUE, value |-> Some(value), error |-> Null]
Rejected(error) == [ok |-> FALSE, value |-> Null, error |-> Some(error)]

\* Variant: the status of the response is not looked at.
fetchJsonUnchecked(url, answer) ==
    IF answer.status = 0
    THEN Rejected([message |-> "fetch failed", status |-> 0, url |-> url])
    ELSE Resolved(answer.body)

\* fetchJson: fetch() rejects when there is no response (status 0 here);
\* a response that is not ok (status outside 200..299) throws.
fetchJson(url, answer) ==
    IF answer.status = 0
    THEN Rejected([message |-> "fetch failed", status |-> 0, url |-> url])
    ELSE IF answer.status \notin 200..299
    THEN Rejected([message |-> "NWS request failed", status |-> answer.status, url |-> url])
    ELSE Resolved(answer.body)

\* The entry a day gets from its first period.
NewEntry(period) ==
    [date |-> period.startTime, name |-> period.name, highF |-> Null, lowF |-> Null,
     summary |-> period.shortForecast, icon |-> period.icon]

\* Variant: a nighttime period always sets the summary.
NightSummaryOverwrites(summary, shortForecast) == shortForecast

\* entry.summary || period.shortForecast
NightSummary(summary, shortForecast) ==
    IF summary # "" THEN summary ELSE shortForecast

ApplyPeriod(entry, period) ==
    IF period.isDaytime
    THEN [entry EXCEPT !.highF = Some(period.temperature),
                       !.summary = period.shortForecast,
                       !.icon = period.icon]
    ELSE [entry EXCEPT !.lowF = Some(period.temperature),
                       !.summary = NightSummary(@, period.shortForecast)]

\* dailyMap is a sequence of [key, entry] in insertion order.
KeyIndex(map, key) ==
    IF \E i \in DOMAIN map : map[i].key = key
    THEN CHOOSE i \in DOMAIN map : map[i].key = key
    ELSE 0

\* Variant: every period starts an entry of its own.
FoldPeriodApart(map, period) ==
    Append(map, [key |-> formatDateKey(period.startTime),
                 entry |-> ApplyPeriod(NewEntry(period), period)])

\* One call of the forEach callback.
FoldPeriod(map, period) ==
    LET dateKey == formatDateKey(period.startTime)
        withKey == IF KeyIndex(map, dateKey) = 0
                   THEN Append(map, [key |-> dateKey, entry |-> NewEntry(period)])
                   ELSE map
    IN  [withKey EXCEPT ![KeyIndex(withKey, dateKey)].entry = ApplyPeriod(@, period)]

RECURSIVE DailyMap(_)
DailyMap(periods) ==
    IF periods = <<>>
    THEN <<>>
    ELSE FoldPeriod(DailyMap(SubSeq(periods, 1, Len(periods) - 1)), periods[Len(periods)])

\* Variant: every folded day is returned.
DailyUncapped(periods) ==
    [i \in DOMAIN DailyMap(periods) |-> DailyMap(periods)[i].entry]

\* Array.from(dailyMap.values()).slice(0, 7)
Daily(periods) ==
    slice([i \in DOMAIN DailyMap(periods) |-> DailyMap(periods)[i].entry], DailyCap)

\* Variant: the last station of the list is taken.
StationIdLast(stations) ==
    IF stations = <<>> \/ stations[Len(stations)] = ""
    THEN Null
    ELSE Some(stations[Len(stations)])

\* stations.features?.[0]?.properties?.stationIdentifier, null when it is
\* missing or empty (the test `stationId ?` is on truthiness).
StationId(stations) ==
    IF stations = <<>> \/ stations[1] = "" THEN Null ELSE Some(stations[1])

\* Variant: the parts are joined without filter(Boolean).
LocationNameUnfiltered(overrideName, points) ==
    IF overrideName # Null /\ overrideName[1] # "" THEN overrideName[1]
    ELSE (IF points.city = Null THEN "" ELSE points.city[1]) \o ", "
            \o (IF points.state = Null THEN "" ELSE points.state[1])

\* overrideName || [city, state].filter(Boolean).join(", ")
LocationName(overrideName, points) ==
    LET city == points.city
        state == points.state
        hasCity == city # Null /\ city[1] # ""
        hasState == state # Null /\ state[1] # ""
    IN  IF overrideName # Null /\ overrideName[1] # "" THEN overrideName[1]
        ELSE IF hasCity /\ hasState THEN city[1] \o ", " \o state[1]
        ELSE IF hasCity THEN city[1]
        ELSE IF hasState THEN state[1]
        ELSE ""

HourlyEntry(period) ==
    [time |-> period.startTime, temperatureF |-> period.temperature,
     summary |-> period.shortForecast, icon |-> period.icon,
     precipChance |-> round(period.probabilityOfPrecipitation),
     humidity |-> round(period.relativeHumidity)]

\* observation?.properties.<field>.value ?? null
ObservedValue(observation, field) ==
    IF observation = Null THEN Null ELSE observation[1][field]

\* Variant: the wind chill is looked at before the heat index.
FeelsLikeWindChillFirst(observation) ==
    Coalesce(ObservedValue(observation, "windChill"),
    Coalesce(ObservedValue(observation, "heatIndex"),
             ObservedValue(observation, "temperature")))

\* heatIndex.value ?? windChill.value ?? temperature.value ?? null
FeelsLike(observation) ==
    Coalesce(ObservedValue(observation, "heatIndex"),
    Coalesce(ObservedValue(observation, "windChill"),
             ObservedValue(observation, "temperature")))

\* Variant: the first hourly period is preferred to the observation.
CurrentTemperatureHourlyFirst(currentTempF, first) ==
    Coalesce(IF first = Null THEN Null ELSE Some(first[1].temperature), currentTempF)

\* currentTempF ?? hourlyPeriods[0]?.temperature ?? null
CurrentTemperature(currentTempF, first) ==
    Coalesce(currentTempF, IF first = Null THEN Null ELSE Some(first[1].temperature))

\* The return statement of getWeatherByCoords; `observation` is null when no
\* station was queried.
BuildPayload(lat, lon, overrideName, points, forecast, hourly, observation) ==
    LET locationName == LocationName(overrideName, points)
        hourlyPeriods == slice(hourly.periods, HourlyCap)
        first == IF hourlyPeriods = <<>> THEN Null ELSE Some(hourlyPeriods[1])
        currentTempF == cToF(ObservedValue(observation, "temperature"))
        feelsLike == FeelsLike(observation)
    IN  [location |-> [name |-> IF locationName # "" THEN locationName ELSE "Unknown",
                       lat |-> lat, lon |-> lon],
         current |->
            [temperatureF |-> CurrentTemperature(currentTempF, first),
             feelsLikeF |-> cToF(feelsLike),
             condition |-> Coalesce(ObservedValue(observation, "textDescription"),
                              Coalesce(IF first = Null THEN Null
                                       ELSE Some(first[1].shortForecast),
                                       Some("Current conditions")))[1],
             humidity |-> round(ObservedValue(observation, "relativeHumidity")),
             windSpeedMph |-> mpsToMph(ObservedValue(observation, "windSpeed")),
             windGustMph |-> mpsToMph(ObservedValue(observation, "windGust")),
             windDirection |-> degreesToCardinal(ObservedValue(observation, "windDirection")),
             dewPointF |-> cToF(ObservedValue(observation, "dewpoint")),
             pressureInHg |-> pascalToInHg(ObservedValue(observation, "barometricPressure")),
             visibilityMiles |-> metersToMiles(ObservedValue(observation, "visibility")),
             observedAt |-> ObservedValue(observation, "timestamp")],
         daily |-> Daily(forecast.periods),
         hourly |-> [i \in DOMAIN hourlyPeriods |-> HourlyEntry(hourlyPeriods[i])],
         updatedAt |-> [forecast |-> forecast.updated, hourly |-> hourly.updated]]

----------------------------------------------------------------------------
(* What the weather service answers *)

\* Bounds: the longest free list of forecast periods, the most days of a
\* regular forecast, the most hourly periods.
MaxPeriods == 3
MaxDays == 8
MaxHourly == 49

\* Status of an answer: 0 is no response at all (transport failure).
Statuses == {0, 200, 503}

\* Forecast periods the free lists are made of.  Hour 11 is 06:00, hour 23
\* is 18:00 and hour 28 is 23:00 of January 1 in New York (hour 28 is January
\* 2 in UTC); hour 35 is 06:00 of January 2.
Periods ==
    {[name |-> "Monday", startTime |-> 11, isDaytime |-> TRUE, temperature |-> 80,
      shortForecast |-> "Sunny", icon |-> "day.png"],
     [name |-> "Monday", startTime |-> 11, isDaytime |-> TRUE, temperature |-> 80,
      shortForecast |-> "", icon |-> "day.png"],
     [name |-> "Monday Night", startTime |-> 23, isDaytime |-> FALSE, temperature |-> 60,
      shortForecast |-> "Clear", icon |-> "night.png"],
     [name |-> "Overnight", startTime |-> 28, isDaytime |-> FALSE, temperature |-> 55,
      shortForecast |-> "Fog", icon |-> "fog.png"],
     [name |-> "Tuesday", startTime |-> 35, isDaytime |-> TRUE, temperature |-> 75,
      shortForecast |-> "Rain", icon |-> "rain.png"]}

FreeForecasts == UNION {[1..n -> Periods] : n \in 0..MaxPeriods}

\* A regular forecast of n days: a daytime and a nighttime period per day.
RegularForecast(n) ==
    [i \in 1..(2 * n) |->
        LET day == (i - 1) \div 2
        IN  IF i % 2 = 1
            THEN [name |-> "Day", startTime |-> 24 * day + 11, isDaytime |-> TRUE,
                  temperature |-> 80 - day, shortForecast |-> "Sunny", icon |-> "day.png"]
            ELSE [name |-> "Night", startTime |-> 24 * day + 23, isDaytime |-> FALSE,
                  temperature |-> 60 - day, shortForecast |-> "Clear", icon |-> "night.png"]]

\* An hourly forecast of n periods.
HourlyForecast(n) ==
    [i \in 1..n |->
        [startTime |-> 10 + i, temperature |-> 40 + (i % 25),
         shortForecast |-> IF i % 2 = 0 THEN "Cloudy" ELSE "Clear", icon |-> "hour.png",
         probabilityOfPrecipitation |-> IF i % 3 = 0 THEN Null ELSE Some(10 * i + 4),
         relativeHumidity |-> Some(500 + i)]]

HourlyLengths == {0, 1, HourlyCap, MaxHourly}

StationLists == {<<>>, <<"KNYC">>, <<"KNYC", "KLGA">>}

\* A latest observation with the given heat index, wind chill and temperature.
Observation(heatIndex, windChill, temperature) ==
    [timestamp |-> Some(9), textDescription |-> Some("Cloudy"), temperature |-> temperature,
     dewpoint |-> Some(100), windSpeed |-> Some(51), windDirection |-> Some(900),
     windGust |-> Null, relativeHumidity |-> Some(553), barometricPressure |-> Some(101325),
     visibility |-> Some(16093), heatIndex |-> heatIndex, windChill |-> windChill]

\* Latest observations: every combination of a heat index (absent, 0.0 or
\* 30.5), a wind chill (absent or 19.8) and a temperature (absent or 21.5),
\* and one with no measurement at all.
Observations ==
    {Observation(h, w, t) :
        h \in {Null, Some(0), Some(305)}, w \in {Null, Some(198)}, t \in {Null, Some(215)}}
    \cup
    {[timestamp |-> Null, textDescription |-> Null, temperature |-> Null,
      dewpoint |-> Null, windSpeed |-> Null, windDirection |-> Null,
      windGust |-> Null, relativeHumidity |-> Null, barometricPressure |-> Null,
      visibility |-> Null, heatIndex |-> Null, windChill |-> Null]}

\* relativeLocation of the point metadata: city and state, either of which
\* may be missing or empty.
PointsBodies == {[city |-> Some("Hoboken"), state |-> Some("NJ")],
                 [city |-> Some("Hoboken"), state |-> Null],
                 [city |-> Null, state |-> Some("NJ")],
                 [city |-> Some(""), state |-> Some("NJ")],
                 [city |-> Null, state |-> Null]}

World(st, pointsBody, periods, hours, stations, observation) ==
    [points |-> [status |-> st[1], body |-> pointsBody],
     forecast |-> [status |-> st[2], body |-> [periods |-> periods, updated |-> 7]],
     hourly |-> [status |-> st[3], body |-> [periods |-> HourlyForecast(hours), updated |-> 8]],
     stations |-> [status |-> st[4], body |-> stations],
     observation |-> [status |-> st[5], body |-> observation]]

FullObservation == Observation(Null, Some(198), Some(215))
AllOk == <<200, 200, 200, 200, 200>>

\* Five families of answers: every combination of statuses over plain
\* bodies; every free forecast with all else plain; every regular forecast
\* with every hourly forecast; every combination of hourly forecast, station
\* list and observation under a plain forecast; every place with all else
\* plain.
Worlds ==
    {World(st, [city |-> Some("Hoboken"), state |-> Some("NJ")],
           RegularForecast(1), 1, s, FullObservation) :
        st \in Statuses \X Statuses \X Statuses \X Statuses \X Statuses,
        s \in StationLists}
    \cup {World(AllOk, [city |-> Some("Hoboken"), state |-> Some("NJ")],
                f, 1, <<"KNYC">>, FullObservation) : f \in FreeForecasts}
    \cup {World(AllOk, [city |-> Some("Hoboken"), state |-> Some("NJ")],
                RegularForecast(n), h, <<"KNYC">>, FullObservation) :
            n \in 0..MaxDays, h \in HourlyLengths}
    \cup {World(<<200, 200, 200, 200, os>>, [city |-> Some("Hoboken"), state |-> Some("NJ")],
                RegularForecast(1), h, s, o) :
            os \in Statuses, h \in HourlyLengths, s \in StationLists, o \in Observations}
    \cup {World(AllOk, p, RegularForecast(1), 1, s, FullObservation) :
            p \in PointsBodies, s \in StationLists}

\* What callers pass: getNewYorkWeather's arguments, bare coordinates, and
\* coordinates with an empty name.
AggArgs == {<<407128, -740060, Some("New York, NY")>>, <<407131, -740060, Null>>,
            <<407131, -740060, Some("")>>}

----------------------------------------------------------------------------
(* getWeatherByCoords, step by step *)

NotStarted ==
    [pc |-> "idle", lat |-> 0, lon |-> 0, overrideName |-> Null, sent |-> <<>>,
     points |-> Null, got |-> [forecast |-> Null, hourly |-> Null, stations |-> Null],
     result |-> Null]

InitAgg ==
    /\ StoreIdle
    /\ now = 0
    /\ ticks = 0
    /\ cacheBuckets = [k \in {} |-> NewBucket]
    /\ fetches = <<>>
    /\ requests = <<>>
    /\ probe = Null
    /\ agg = NotStarted
    /\ upstream \in Worlds

PointsUrl(lat, lon) == <<"points", lat, lon>>
ObservationUrl(stationId) == <<"stations", stationId, "observations", "latest">>

\* The call, up to the first await: the point metadata is requested.
AggCall ==
    \E a \in AggArgs :
        /\ agg.pc = "idle"
        /\ agg' = [agg EXCEPT !.pc = "points", !.lat = a[1], !.lon = a[2],
                              !.overrideName = a[3],
                              !.sent = <<PointsUrl(a[1], a[2])>>]
        /\ UNCHANGED <<now, ticks, cacheBuckets, fetches, requests, upstream, probe, storeVars>>

\* The point metadata request settles: on success the three requests of
\* Promise.all are issued, on failure the invocation throws.
PointsResponds ==
    LET r == fetchJson(PointsUrl(agg.lat, agg.lon), upstream.points)
    IN  /\ agg.pc = "points"
        /\ agg' = IF r.ok
                  THEN [agg EXCEPT !.pc = "all", !.points = r.value,
                                   !.sent = @ \o << <<"forecast">>, <<"hourly">>, <<"stations">> >>]
                  ELSE [agg EXCEPT !.pc = "failed", !.result = Some(Rejected(r.error[1]))]
        /\ UNCHANGED <<now, ticks, cacheBuckets, fetches, requests, upstream, probe, storeVars>>

\* One of the three requests of Promise.all settles.  The first rejection
\* rejects Promise.all and the invocation throws; when the third has
\* resolved, the invocation goes on to the station: it awaits the latest
\* observation of the station it picked, or returns at once without one.
AllResponds ==
    \E which \in {"forecast", "hourly", "stations"} :
        LET r == fetchJson(<<which>>, upstream[which])
            got == [agg.got EXCEPT ![which] = r.value]
            stationId == StationId(got.stations[1])
        IN  /\ agg.pc = "all"
            /\ agg.got[which] = Null
            /\ agg' =
                 IF ~r.ok
                 THEN [agg EXCEPT !.pc = "failed", !.result = Some(Rejected(r.error[1]))]
                 ELSE IF \E w \in DOMAIN got : got[w] = Null
                 THEN [agg EXCEPT !.got = got]
                 ELSE IF stationId # Null
                 THEN [agg EXCEPT !.got = got, !.pc = "observation",
                                  !.sent = Append(@, ObservationUrl(stationId[1]))]
                 ELSE [agg EXCEPT !.got = got, !.pc = "returned",
                                  !.result = Some(Resolved(
                                      BuildPayload(agg.lat, agg.lon, agg.overrideName,
                                                   agg.points[1], got.forecast[1],
                                                   got.hourly[1], Null)))]
            /\ UNCHANGED <<now, ticks, cacheBuckets, fetches, requests, upstream, probe, storeVars>>

\* The observation request settles: the await is not inside a try, so a
\* failure throws out of the invocation.
ObservationResponds ==
    LET r == fetchJson(agg.sent[Len(agg.sent)], upstream.observation)
    IN  /\ agg.pc = "observation"
        /\ agg' = IF r.ok
                  THEN [agg EXCEPT !.pc = "returned",
                                   !.result = Some(Resolved(
                                       BuildPayload(agg.lat, agg.lon, agg.overrideName,
                                                    agg.points[1], agg.got.forecast[1],
                                                    agg.got.hourly[1], r.value)))]
                  ELSE [agg EXCEPT !.pc = "failed", !.result = Some(Rejected(r.error[1]))]
        /\ UNCHANGED <<now, ticks, cacheBuckets, fetches, requests, upstream, probe, storeVars>>

NextAgg ==
    \/ AggCall
    \/ PointsResponds
    \/ AllResponds
    \/ ObservationResponds

SpecAgg == InitAgg /\ [][NextAgg]_vars

----------------------------------------------------------------------------
(* The conversion utilities on their own: one function is applied to one    *)
(* argument.                                                                *)

\* Bounds: the largest degree value, Celsius value and Fahrenheit value (each
\* with its negative) a conversion is applied to.
MaxDegrees == 360
MaxCelsius == 60
MaxFahrenheit == 140

\* formatTemp(valueF, "C"): the rounded Celsius value and its unit, or a dash.
formatTemp(valueF) ==
    IF valueF = Null THEN <<"-">> ELSE <<MathRound(5 * (valueF[1] - 32), 9), "C">>

\* Arguments: whole and half degrees, whole Celsius temperatures, whole
\* Fahrenheit temperatures, and for the other utilities a few measurements
\* of either sign; null for each.
ConvInputs ==
    {<<"degreesToCardinal", Some(5 * d)>> : d \in (-2 * MaxDegrees)..(2 * MaxDegrees)}
    \cup {<<"cToF", Some(10 * c)>> : c \in (-MaxCelsius)..MaxCelsius}
    \cup {<<"formatTemp", Some(f)>> : f \in (-MaxFahrenheit)..MaxFahrenheit}
    \cup {<<fn, Some(v)>> :
            fn \in {"round", "mpsToMph", "metersToMiles", "pascalToInHg"},
            v \in {-4023, -55, -5, 0, 4, 5, 51, 553, 4023}}
    \cup {<<fn, Null>> :
            fn \in {"degreesToCardinal", "cToF", "formatTemp", "round", "mpsToMph",
                    "metersToMiles", "pascalToInHg"}}

InitConv ==
    /\ StoreIdle
    /\ now = 0
    /\ ticks = 0
    /\ cacheBuckets = [k \in {} |-> NewBucket]
    /\ fetches = <<>>
    /\ requests = <<>>
    /\ upstream = Null
    /\ agg = Null
    /\ probe \in {[fn |-> i[1], x |-> i[2], done |-> FALSE, y |-> Null] : i \in ConvInputs}

\* The function named fn is applied and returns y.
Returns(fn, y) ==
    /\ probe.fn = fn
    /\ ~probe.done
    /\ probe' = [probe EXCEPT !.done = TRUE, !.y = y]
    /\ UNCHANGED <<now, ticks, cacheBuckets, fetches, requests, upstream, agg, storeVars>>

ApplyDegreesToCardinal == Returns("degreesToCardinal", degreesToCardinal(probe.x))
ApplyCToF == Returns("cToF", cToF(probe.x))
ApplyRound == Returns("round", round(probe.x))
ApplyMpsToMph == Returns("mpsToMph", mpsToMph(probe.x))
ApplyMetersToMiles == Returns("metersToMiles", metersToMiles(probe.x))
ApplyPascalToInHg == Returns("pascalToInHg", pascalToInHg(probe.x))

\* A Fahrenheit value is shown in Celsius by formatTemp, and the value shown
\* is converted back by cToF; y is <<shown, back>>.
ApplyFormatTemp ==
    LET shown == formatTemp(probe.x)
    IN  Returns("formatTemp",
                <<shown, IF probe.x = Null THEN Null ELSE cToF(Some(10 * shown[1]))>>)

NextConv ==
    \/ ApplyDegreesToCardinal
    \/ ApplyCToF
    \/ ApplyRound
    \/ ApplyMpsToMph
    \/ ApplyMetersToMiles
    \/ ApplyPascalToInHg
    \/ ApplyFormatTemp

SpecConv == InitConv /\ [][NextConv]_vars

----------------------------------------------------------------------------
(* The subscriber store (lib/subscribers, one JSON file) and the digest     *)
(* route that reads and saves it.  Every operation is an async function:    *)
(* between two of its awaits it runs without interruption, and at an await  *)
(* any other operation may run.  An email address is a sequence of          *)
(* one-character strings; the clock counts hours, and a local date is the   *)
(* number of the day.                                                       *)

DEFAULT_TIMEZONE == "America/New_York"
DEFAULT_UNIT == "F"

\* Bounds: the number of operations called, and the hours after the first
\* within which the clock still advances.
MaxCalls == 3
MaxHours == 1

\* Clock advances: into the next hour, and to the same hour of the next day.
HourSteps == {1, 24}

\* String.prototype.trim
RECURSIVE trim(_)
trim(str) ==
    IF str = <<>> THEN str
    ELSE IF str[1] = " " THEN trim(Tail(str))
    ELSE IF str[Len(str)] = " " THEN trim(SubSeq(str, 1, Len(str) - 1))
    ELSE str

\* String.prototype.toLowerCase, on the letters in use.
toLowerCase(str) ==
    [i \in 1..Len(str) |->
        IF str[i] = "A" THEN "a" ELSE IF str[i] = "B" THEN "b" ELSE str[i]]

normalizeEmail(email) == toLowerCase(trim(email))

\* /^[^\s@]+@[^\s@]+\.[^\s@]+$/
isEmail(email) ==
    \E i, j \in 1..Len(email) :
        /\ 1 < i
        /\ i + 1 < j
        /\ j < Len(email)
        /\ email[i] = "@"
        /\ email[j] = "."
        /\ \A k \in (1..Len(email)) \ {i} : email[k] \notin {" ", "@"}

\* The check addSubscriber makes: isEmail(normalizeEmail(email)).
isValid(email) == isEmail(normalizeEmail(email))

\* What callers of addSubscriber pass as email and as options: an address
\* with a leading space and a capital, a second address and a string that is
\* no address; no options, or all three.
EmailInputs ==
    {<<" ", "A", "@", "x", ".", "y">>, <<"b", "@", "x", ".", "y">>, <<"a", "@", "x">>}

NoOptions == [location |-> Null, unit |-> Null, timezone |-> Null]

OptionInputs ==
    {NoOptions,
     [location |-> Some([name |-> "Home", lat |-> 356762, lon |-> 1396503]),
      unit |-> Some("C"), timezone |-> Some("Asia/Tokyo")]}

\* A record of the file, as addSubscriber writes it at the time subscribedAt.
NewSubscriber(email, options, token, subscribedAt) ==
    [email |-> email,
     location |-> options.location,
     unit |-> Coalesce(options.unit, Some(DEFAULT_UNIT))[1],
     timezone |-> Coalesce(options.timezone, Some(DEFAULT_TIMEZONE))[1],
     token |-> token,
     subscribedAt |-> subscribedAt,
     lastSentOn |-> Null]

\* Variant: options left out of the call reset the record to the defaults.
ExistingReset(existing, options) ==
    [existing EXCEPT !.location = options.location,
                     !.unit = Coalesce(options.unit, Some(DEFAULT_UNIT))[1],
                     !.timezone = Coalesce(options.timezone, Some(DEFAULT_TIMEZONE))[1]]

\* The update of a record that is already there: each option ?? its old value.
ExistingUpdated(existing, options) ==
    [existing EXCEPT !.location = Coalesce(options.location, @),
                     !.unit = Coalesce(options.unit, Some(@))[1],
                     !.timezone = Coalesce(options.timezone, Some(@))[1]]

\* migrate, on the arrays of records the store itself writes: an empty array
\* is unchanged; any other is copied with each email normalized again and is
\* reported changed.  Token and subscribedAt are present and so are kept.
migrate(raw) ==
    IF raw = <<>>
    THEN [data |-> <<>>, changed |-> FALSE]
    ELSE [data |-> [i \in 1..Len(raw) |->
                        [raw[i] EXCEPT !.email = normalizeEmail(@)]],
          changed |-> TRUE]

\* resolveTimeZone: a zone Intl does not know, or none, becomes New York.
resolveTimeZone(timeZone) ==
    IF timeZone \in {"America/New_York", "Asia/Tokyo"} THEN timeZone ELSE "America/New_York"

\* Hours a zone is ahead of UTC (New York in winter).
UtcOffset(timeZone) == IF resolveTimeZone(timeZone) = "Asia/Tokyo" THEN 9 ELSE NWS_TIMEZONE

getLocalDate(date, timeZone) == (date + UtcOffset(timeZone)) \div 24

getLocalHour(date, timeZone) == (date + UtcOffset(timeZone)) % 24

isDueNow(subscriber, date) ==
    /\ getLocalHour(date, subscriber.timezone) = 7
    /\ subscriber.lastSentOn # Some(getLocalDate(date, subscriber.timezone))

\* Files the store has written before: empty, and one subscriber in New
\* York without a location.
InitialFiles == {<<>>, <<NewSubscriber(<<"a", "@", "x", ".", "y">>, NoOptions, 1, 0)>>}

\* The clock starts at 12:00 UTC: 7 in New York, 21 in Tokyo.
InitStore ==
    /\ now = 0
    /\ ticks = 0
    /\ cacheBuckets = [k \in {} |-> NewBucket]
    /\ fetches = <<>>
    /\ requests = <<>>
    /\ upstream = Null
    /\ agg = Null
    /\ probe = Null
    /\ file \in InitialFiles
    /\ calls = <<>>
    /\ clock = 12
    /\ outbox = {}
    /\ tokens = Len(file)

\* A call at its start.  `list` is the local array (read, then to be
\* written), `date` the digest run's `now`, `due` the positions of the due
\* subscribers; `read` and `after` are history: the array readAll returned,
\* and the calls that had returned when the file was read.
NewCall(op) ==
    [op |-> op, pc |-> "read", email |-> <<>>, options |-> NoOptions, token |-> 0,
     force |-> FALSE, list |-> <<>>, date |-> 0, due |-> {}, sent |-> {},
     read |-> <<>>, after |-> {}, result |-> Null]

Returned1(C, result) == [C EXCEPT !.pc = "done", !.result = result]

\* Only the store variables change.
StoreFrame == UNCHANGED <<now, ticks, cacheBuckets, fetches, requests, upstream, agg, probe>>

\* addSubscriber up to its first await (the file read inside readAll), or
\* its return for an invalid address.
addSubscriber ==
    \E email \in EmailInputs, options \in OptionInputs :
        LET C == [NewCall("add") EXCEPT !.email = normalizeEmail(email),
                                        !.options = options]
        IN  /\ Len(calls) < MaxCalls
            /\ calls' = Append(calls,
                  IF isValid(email) THEN C
                  ELSE Returned1(C, <<FALSE, "Invalid email">>))
            /\ UNCHANGED <<file, clock, outbox, tokens>>
            /\ StoreFrame

\* removeSubscriberByToken up to the file read: a token that was issued, or
\* one that never was (0).
removeSubscriberByToken ==
    \E token \in 0..tokens :
        /\ Len(calls) < MaxCalls
        /\ calls' = Append(calls, [NewCall("remove") EXCEPT !.token = token])
        /\ UNCHANGED <<file, clock, outbox, tokens>>
        /\ StoreFrame

\* The digest route's POST up to the file read of listSubscribers.
POST ==
    \E force \in BOOLEAN :
        /\ Len(calls) < MaxCalls
        /\ calls' = Append(calls, [NewCall("digest") EXCEPT !.force = force])
        /\ UNCHANGED <<file, clock, outbox, tokens>>
        /\ StoreFrame

\* The position of the first record with this email, or 0.
FindIndex(subscribers, email) ==
    IF \E i \in 1..Len(subscribers) : subscribers[i].email = email
    THEN CHOOSE i \in 1..Len(subscribers) :
            /\ subscribers[i].email = email
            /\ \A j \in 1..(i - 1) : subscribers[j].email # email
    ELSE 0

\* addSubscriber after readAll: the existing record is updated, or a new
\* one with a new token is pushed; then writeAll is awaited.
AddContinues(C, subscribers) ==
    LET i == FindIndex(subscribers, C.email)
    IN  IF i # 0
        THEN [C EXCEPT !.pc = "write", !.read = subscribers,
                       !.list = [subscribers EXCEPT ![i] = ExistingUpdated(@, C.options)],
                       !.result = <<TRUE, "Already subscribed">>]
        ELSE [C EXCEPT !.pc = "write", !.read = subscribers,
                       !.list = Append(subscribers,
                                  NewSubscriber(C.email, C.options, tokens + 1, clock)),
                       !.token = tokens + 1,
                       !.result = <<TRUE, "Subscribed">>]

\* removeSubscriberByToken after readAll.
RemoveContinues(C, subscribers) ==
    LET filtered == SelectSeq(subscribers, LAMBDA entry : entry.token # C.token)
    IN  IF Len(filtered) = Len(subscribers)
        THEN [Returned1(C, <<FALSE>>) EXCEPT !.read = subscribers]
        ELSE [C EXCEPT !.pc = "write", !.read = subscribers, !.list = filtered,
                       !.result = <<TRUE>>]

\* POST after listSubscribers: `now` is taken and the due subscribers are
\* selected; their emails are then built and sent concurrently.
PostContinues(C, subscribers) ==
    LET due == {i \in 1..Len(subscribers) : C.force \/ isDueNow(subscribers[i], clock)}
    IN  IF due = {}
        THEN [Returned1(C, <<TRUE, 0>>) EXCEPT !.read = subscribers, !.date = clock]
        ELSE [C EXCEPT !.pc = "send", !.read = subscribers, !.list = subscribers,
                       !.date = clock, !.due = due]

Continues(C, subscribers) ==
    CASE C.op = "add" -> AddContinues(C, subscribers)
      [] C.op = "remove" -> RemoveContinues(C, subscribers)
      [] C.op = "digest" -> PostContinues(C, subscribers)

TokensAfter(C, D) == IF C.op = "add" /\ D.token # 0 THEN D.token ELSE tokens

Done == {d \in DOMAIN calls : calls[d].pc = "done"}

\* readAll's fs.readFile resolves: the contents are migrated; a changed
\* array is written back (awaited), an unchanged one is returned at once.
ReadFileCompletes ==
    \E c \in DOMAIN calls :
        LET C == [calls[c] EXCEPT !.after = Done]
            m == migrate(file)
            D == IF m.changed THEN [C EXCEPT !.pc = "migrate", !.list = m.data]
                 ELSE Continues(C, m.data)
        IN  /\ calls[c].pc = "read"
            /\ calls' = [calls EXCEPT ![c] = D]
            /\ tokens' = IF m.changed THEN tokens ELSE TokensAfter(C, D)
            /\ UNCHANGED <<file, clock, outbox>>
            /\ StoreFrame

\* readAll's fs.writeFile of the migrated array resolves, readAll returns it
\* and its caller goes on.
MigrateWriteCompletes ==
    \E c \in DOMAIN calls :
        LET C == calls[c]
            D == Continues(C, C.list)
        IN  /\ C.pc = "migrate"
            /\ file' = C.list
            /\ calls' = [calls EXCEPT ![c] = D]
            /\ tokens' = TokensAfter(C, D)
            /\ UNCHANGED <<clock, outbox>>
            /\ StoreFrame

\* What one subscriber's task of Promise.allSettled ends in: the email was
\* accepted, the snapshot could not be obtained, or sendEmail threw.
Outcomes == {"sent", "noSnapshot", "sendFailed"}

\* Variant of the set of emails to mark, as Promise.all would give it: none
\* when any task failed.
SentSetAll(C, outcome) ==
    IF \A i \in C.due : outcome[i] = "sent" THEN {C.list[i].email : i \in C.due} ELSE {}

\* sentSet: the emails of the fulfilled tasks.
SentSet(C, outcome) == {C.list[i].email : i \in {j \in C.due : outcome[j] = "sent"}}

\* Promise.allSettled resolves: every due subscriber's task has ended; the
\* subscribers that were emailed get lastSentOn and the array is saved
\* (awaited), or nothing was sent and the run returns.
SendsSettle ==
    \E c \in DOMAIN calls :
        \E outcome \in [calls[c].due -> Outcomes] :
            LET C == calls[c]
                sentSet == SentSet(C, outcome)
                updatedSubscribers ==
                    [i \in 1..Len(C.list) |->
                        IF C.list[i].email \in sentSet
                        THEN [C.list[i] EXCEPT !.lastSentOn =
                                  Some(getLocalDate(C.date, C.list[i].timezone))]
                        ELSE C.list[i]]
            IN  /\ C.pc = "send"
                /\ outbox' = outbox \cup
                      {[call |-> c, to |-> C.list[i].email, token |-> C.list[i].token,
                        on |-> getLocalDate(C.date, C.list[i].timezone)] :
                          i \in {j \in C.due : outcome[j] = "sent"}}
                /\ calls' = [calls EXCEPT ![c] =
                      IF sentSet = {}
                      THEN Returned1(C, <<TRUE, 0>>)
                      ELSE [C EXCEPT !.pc = "write", !.list = updatedSubscribers,
                                     !.sent = sentSet,
                                     !.result = <<TRUE, Cardinality(sentSet)>>]]
                /\ UNCHANGED <<file, clock, tokens>>
                /\ StoreFrame

\* writeAll's fs.writeFile resolves and the operation returns.
WriteCompletes ==
    \E c \in DOMAIN calls :
        /\ calls[c].pc = "write"
        /\ file' = calls[c].list
        /\ calls' = [calls EXCEPT ![c].pc = "done"]
        /\ UNCHANGED <<clock, outbox, tokens>>
        /\ StoreFrame

\* The wall clock moves on.
HourPasses ==
    \E d \in HourSteps :
        /\ clock < 12 + MaxHours
        /\ clock' = clock + d
        /\ UNCHANGED <<file, calls, outbox, tokens>>
        /\ StoreFrame

NextStore ==
    \/ addSubscriber
    \/ removeSubscriberByToken
    \/ POST
    \/ ReadFileCompletes
    \/ MigrateWriteCompletes
    \/ SendsSettle
    \/ WriteCompletes
    \/ HourPasses

SpecStore == InitStore /\ [][NextStore]_vars

----------------------------------------------------------------------------
(* Properties *)

Max(S) == CHOOSE x \in S : \A y \in S : y <= x

\* The fetches of a bucket that have stored a result.
Succeeded(key) ==
    {f \in DOMAIN fetches : fetches[f].key = key /\ fetches[f].fetchedAt >= 0}

\* The request a step adds, when it adds one.
Arrives == Len(requests') = Len(requests) + 1
Arrival == requests'[Len(requests')]

\* C1: single-flight. For every bucket at most one fetch is unsettled at any
\* time; the requests waiting on an unsettled fetch of one bucket all wait on
\* the same fetch, the one the bucket's in-flight marker names; and a request
\* that did not start the fetch it waits on joined one an earlier request
\* started.
SingleFlight ==
    /\ \A k \in DOMAIN cacheBuckets :
          /\ Cardinality({f \in DOMAIN fetches :
                 fetches[f].key = k /\ fetches[f].pc \in Unsettled}) <= 1
          /\ \A f \in DOMAIN fetches :
                 fetches[f].key = k /\ fetches[f].pc \in Unsettled
                    => cacheBuckets[k].inFlight = f
    /\ \A r \in DOMAIN requests :
          requests[r].awaiting # 0 =>
             /\ fetches[requests[r].awaiting].key = requests[r].key
             /\ \E r0 \in 1..r :
                    /\ requests[r0].started
                    /\ requests[r0].awaiting = requests[r].awaiting
                    /\ (requests[r].started => r0 = r)
    /\ Len(fetches) = Cardinality({r \in DOMAIN requests : requests[r].started})

\* Two requests to an empty bucket are pending at once: one fetch exists, the
\* first request started it and the second joined it.
SingleFlightWitness ==
    /\ Len(fetches) = 1
    /\ Len(requests) = 2
    /\ fetches[1].pc = "calling"
    /\ fetches[1].before = <<Null, Null>>
    /\ requests[1].pc = "awaiting" /\ requests[1].started /\ requests[1].awaiting = 1
    /\ requests[2].pc = "awaiting" /\ ~requests[2].started /\ requests[2].awaiting = 1

\* C2: fresh hit. A request that arrives less than CACHE_TTL_MS after a fetch
\* of its bucket stored its result returns that fetch's data (under the
\* request's display name) tagged "cache" and invokes no fetch and no
\* aggregator call; a request that arrives when every stored result of its
\* bucket is CACHE_TTL_MS old or older is not answered on arrival.
FreshHit ==
    [][Arrives =>
        LET r == Arrival
        IN  /\ \A f \in Succeeded(r.key) :
                  now - fetches[f].fetchedAt < CACHE_TTL_MS =>
                     /\ r.pc = "done"
                     /\ r.resp.status = "ok"
                     /\ r.resp.meta[1].source = "cache"
                     /\ r.resp.data[1] =
                            applyOverrideName(fetches[f].value[1], r.overrideName)
                     /\ r.awaiting = 0
                     /\ fetches' = fetches
            /\ (\A f \in Succeeded(r.key) :
                   now - fetches[f].fetchedAt >= CACHE_TTL_MS)
                  => r.pc = "awaiting" /\ r.resp = Pending
      ]_vars

\* A request answered from the fresh entry 800 ms after the fetch stored it.
FreshHitWitness ==
    \E r \in DOMAIN requests :
        /\ requests[r].pc = "done"
        /\ requests[r].resp.status = "ok"
        /\ requests[r].resp.meta[1].source = "cache"
        /\ requests[r].resp.meta[1].ageMs = 800
        /\ requests[r].awaiting = 0


\* The requests that waited on a fetch and have resumed after it failed / succeeded.
ResumedAfterFailure ==
    {r \in DOMAIN requests :
        /\ requests[r].pc = "done"
        /\ requests[r].awaiting # 0
        /\ fetches[requests[r].awaiting].pc = "settled_err"}

ResumedAfterSuccess ==
    {r \in DOMAIN requests :
        /\ requests[r].pc = "done"
        /\ requests[r].awaiting # 0
        /\ fetches[requests[r].awaiting].pc = "settled_ok"}

\* The fetches of the same bucket that stored a result before fetch f started.
PriorSuccesses(f) == {g \in Succeeded(fetches[f].key) : g < f}

\* C3: stale fallback. A request whose awaited fetch failed, in a bucket whose
\* latest earlier result is less than STALE_TTL_MS old when the request
\* resumes, returns that result's data (under the request's display name)
\* tagged "stale", with fetchedAt the time that result was stored.
StaleFallback ==
    \A r \in ResumedAfterFailure :
        LET R == requests[r]
            prior == PriorSuccesses(R.awaiting)
        IN  (prior # {} /\ R.doneAt - fetches[Max(prior)].fetchedAt < STALE_TTL_MS) =>
               /\ R.resp.status = "ok"
               /\ R.resp.meta[1].source = "stale"
               /\ R.resp.data[1] =
                      applyOverrideName(fetches[Max(prior)].value[1], R.overrideName)
               /\ R.resp.meta[1].fetchedAt = toISOString(fetches[Max(prior)].fetchedAt)

\* A request served a result that is past the fresh window and inside the
\* stale window after all three attempts of its fetch failed.
StaleFallbackWitness ==
    \E r \in ResumedAfterFailure :
        /\ requests[r].resp.status = "ok"
        /\ requests[r].resp.meta[1].source = "stale"
        /\ requests[r].resp.meta[1].ageMs >= CACHE_TTL_MS
        /\ requests[r].resp.meta[1].ageMs < STALE_TTL_MS

\* C4: failure propagation. A request whose awaited fetch failed, in a bucket
\* that has no earlier result or whose latest earlier result is more than
\* STALE_TTL_MS old when the request resumes, throws the fetch's error and
\* returns no data.
FailurePropagates ==
    \A r \in ResumedAfterFailure :
        LET R == requests[r]
            prior == PriorSuccesses(R.awaiting)
        IN  (prior = {} \/ R.doneAt - fetches[Max(prior)].fetchedAt > STALE_TTL_MS) =>
               /\ R.resp.status = "error"
               /\ R.resp.error = fetches[R.awaiting].lastError
               /\ R.resp.data = Null

\* C5: retry success. In every fetch the aggregator has been invoked once per
\* recorded outcome (once more while a call is outstanding); when a call
\* succeeds after k failures the fetch returns that call's payload with
\* exactly k + 1 invocations made, k <= 2, and never calls again; and after
\* k <= 2 failures and no success the retry loop is still running, so a
\* success at call k + 1 is not forgone.
RetrySuccess ==
    \A f \in DOMAIN fetches :
        LET F == fetches[f]
            n == Len(F.outcomes)
        IN  /\ F.calls = IF F.pc = "calling" THEN n + 1 ELSE n
            /\ (n > 0 /\ F.outcomes[n] = "ok") =>
                  /\ F.pc \in {"fulfilled", "settled_ok"}
                  /\ n <= 3
                  /\ \A i \in 1..(n - 1) : F.outcomes[i] = "fail"
                  /\ F.value = Some(AggregatorResult(<<f, n>>, F.loc))
            /\ (n < 3 /\ \A i \in 1..n : F.outcomes[i] = "fail") => F.pc \in Running

\* A fetch that returned the third call's payload after two failures.
RetrySuccessWitness ==
    \E f \in DOMAIN fetches :
        /\ fetches[f].pc = "settled_ok"
        /\ fetches[f].outcomes = <<"fail", "fail", "ok">>
        /\ fetches[f].calls = 3

\* C6: retry exhaustion. A fetch that throws has made exactly 3 aggregator
\* invocations, all failed, and throws the third invocation's error; a request
\* that throws, throws that error.
RetryExhaustion ==
    /\ \A f \in DOMAIN fetches :
          fetches[f].pc \in {"rejected", "settled_err"} =>
             /\ fetches[f].calls = 3
             /\ fetches[f].outcomes = <<"fail", "fail", "fail">>
             /\ fetches[f].lastError = Some(AggregatorError(<<f, 3>>))
    /\ \A r \in DOMAIN requests :
          requests[r].resp.status = "error" =>
             requests[r].resp.error = Some(AggregatorError(<<requests[r].awaiting, 3>>))

\* A request to which the error of an exhausted fetch was thrown.
RetryExhaustionWitness ==
    \E r \in DOMAIN requests :
        /\ requests[r].pc = "done"
        /\ requests[r].resp.status = "error"
        /\ fetches[requests[r].awaiting].calls = 3

\* C7: in every bucket the fresh entry and lastGood are both absent or are
\* the same entry (same data, same fetchedAt).
FreshEqualsLastGood ==
    \A k \in DOMAIN cacheBuckets : cacheBuckets[k].cache = cacheBuckets[k].lastGood

\* A bucket whose entries were stored by a first fetch and stored again by a
\* second one.
FreshEqualsLastGoodWitness ==
    \E k \in DOMAIN cacheBuckets :
        /\ Len(fetches) = 2
        /\ fetches[1].key = k /\ fetches[2].key = k
        /\ fetches[1].fetchedAt >= 0
        /\ cacheBuckets[k].cache # Null
        /\ cacheBuckets[k].cache[1].data.call[1] = 2
        /\ cacheBuckets[k].lastGood = cacheBuckets[k].cache

\* The steps in which fetch f fails: an attempt rejects, fetchWithRetry
\* throws, the rejected promise chain runs .finally.
FailureStep(f) ==
    \/ Len(fetches'[f].outcomes) > Len(fetches[f].outcomes)
          /\ fetches'[f].outcomes[Len(fetches'[f].outcomes)] = "fail"
    \/ fetches[f].pc = "rejected" /\ fetches'[f].pc = "settled_err"

\* C8: a step in which a fetch fails leaves the fresh entry and lastGood of
\* every bucket unchanged, and those of the fetch's bucket equal to what they
\* were when the fetch started; it changes no in-flight marker except, when
\* .finally runs, that of the fetch's bucket, which it clears.
FailedFetchFrame ==
    [][\A f \in DOMAIN fetches :
          FailureStep(f) =>
             LET key == fetches[f].key
             IN  /\ DOMAIN cacheBuckets' = DOMAIN cacheBuckets
                 /\ cacheBuckets'[key].cache = fetches[f].before[1]
                 /\ cacheBuckets'[key].lastGood = fetches[f].before[2]
                 /\ \A k \in DOMAIN cacheBuckets :
                       /\ cacheBuckets'[k].cache = cacheBuckets[k].cache
                       /\ cacheBuckets'[k].lastGood = cacheBuckets[k].lastGood
                       /\ k # key => cacheBuckets'[k].inFlight = cacheBuckets[k].inFlight
                 /\ cacheBuckets'[key].inFlight =
                       IF fetches'[f].pc = "settled_err" THEN 0 ELSE cacheBuckets[key].inFlight
      ]_vars

\* A fetch has failed for good in a bucket that held a result: the result is
\* still there and the marker is clear.
FailedFetchFrameWitness ==
    \E f \in DOMAIN fetches :
        /\ fetches[f].pc = "settled_err"
        /\ fetches[f].before[1] # Null
        /\ cacheBuckets[fetches[f].key].cache = fetches[f].before[1]
        /\ cacheBuckets[fetches[f].key].lastGood = fetches[f].before[2]
        /\ cacheBuckets[fetches[f].key].inFlight = 0

\* C9: after every step no bucket's in-flight marker names a settled fetch,
\* whether the fetch succeeded or failed; and a request that arrives and is
\* not answered from the fresh entry joins the bucket's unsettled fetch if
\* there is one and otherwise starts a new fetch, whose first aggregator call
\* is made at once.
InFlightCleared ==
    [][/\ \A k \in DOMAIN cacheBuckets' :
             cacheBuckets'[k].inFlight # 0 =>
                fetches'[cacheBuckets'[k].inFlight].pc \in Unsettled
       /\ Arrives /\ Arrival.pc = "awaiting" =>
             LET open == {f \in DOMAIN fetches :
                            fetches[f].key = Arrival.key /\ fetches[f].pc \in Unsettled}
             IN  IF open # {}
                 THEN Arrival.awaiting \in open /\ ~Arrival.started /\ fetches' = fetches
                 ELSE /\ Arrival.started
                      /\ Arrival.awaiting = Len(fetches) + 1
                      /\ Len(fetches') = Len(fetches) + 1
                      /\ fetches'[Arrival.awaiting].pc = "calling"
                      /\ fetches'[Arrival.awaiting].calls = 1
      ]_vars

\* The first fetch of a bucket failed; a later request to the bucket started
\* the second fetch.
InFlightClearedWitness ==
    \E r \in DOMAIN requests :
        /\ Len(fetches) = 2
        /\ fetches[1].pc = "settled_err"
        /\ fetches[1].key = requests[r].key
        /\ requests[r].started
        /\ requests[r].awaiting = 2

\* C10: live result. Every request that waited on a fetch that succeeded,
\* whether it started the fetch or joined it, returns that fetch's payload
\* (under the request's display name) tagged "live", with fetchedAt the time
\* the fetch stored its result in the bucket.
LiveResult ==
    \A r \in ResumedAfterSuccess :
        LET R == requests[r]
            F == fetches[R.awaiting]
        IN  /\ R.resp.status = "ok"
            /\ R.resp.meta[1].source = "live"
            /\ R.resp.data[1] = applyOverrideName(F.value[1], R.overrideName)
            /\ R.resp.meta[1].fetchedAt = toISOString(F.fetchedAt)

\* The starter and a joiner of one fetch have both returned live, the joiner
\* having arrived before the result was stored.
LiveResultWitness ==
    /\ Len(requests) = 2
    /\ ResumedAfterSuccess = {1, 2}
    /\ requests[1].awaiting = requests[2].awaiting
    /\ requests[1].started /\ ~requests[2].started
    /\ requests[2].now < fetches[requests[2].awaiting].fetchedAt
    /\ requests[1].resp.meta[1].fetchedAt = requests[2].resp.meta[1].fetchedAt

\* The request r gets its response in this step (on arrival or on resuming).
Responds(r) ==
    /\ r \in DOMAIN requests'
    /\ requests'[r].pc = "done"
    /\ requests'[r].resp.status = "ok"
    /\ (r \in DOMAIN requests => requests[r].pc = "awaiting")

\* The payload as the aggregator invocation `data.call` returned it.
AsAggregated(data) == AggregatorResult(data.call, fetches[data.call[1]].loc)

\* Every stored snapshot and every fetch's value is the payload exactly as the
\* aggregator returned it.
StoredAsAggregated ==
    /\ \A k \in DOMAIN cacheBuckets :
          /\ cacheBuckets[k].cache # Null =>
                cacheBuckets[k].cache[1].data = AsAggregated(cacheBuckets[k].cache[1].data)
          /\ cacheBuckets[k].lastGood # Null =>
                cacheBuckets[k].lastGood[1].data = AsAggregated(cacheBuckets[k].lastGood[1].data)
    /\ \A f \in DOMAIN fetches :
          fetches[f].value # Null =>
             fetches[f].value[1] = AggregatorResult(<<f, fetches[f].calls>>, fetches[f].loc)

\* C11: the display-name override does not leak into the cache. A request
\* made with a (non-empty) override name n is answered with location name n,
\* and one made without with the name the aggregator derived, in cache, live
\* and stale responses alike, the rest of the payload being what a fetch of
\* the request's bucket returned; the step that answers a request changes no
\* bucket's fresh entry or lastGood; and every stored snapshot and every
\* fetch's value is the payload exactly as the aggregator returned it.
OverrideNoLeak ==
    [][/\ \A r \in DOMAIN requests' :
             Responds(r) =>
                LET R == requests'[r]
                    d == R.resp.data[1]
                IN  /\ fetches[d.call[1]].key = R.key
                    /\ [d EXCEPT !.name = AsAggregated(d).name] = AsAggregated(d)
                    /\ d.name = IF R.overrideName \in {Null, Some("")}
                                THEN AsAggregated(d).name
                                ELSE R.overrideName[1]
                    /\ \A k \in DOMAIN cacheBuckets :
                          /\ cacheBuckets'[k].cache = cacheBuckets[k].cache
                          /\ cacheBuckets'[k].lastGood = cacheBuckets[k].lastGood
       /\ StoredAsAggregated'
      ]_vars

\* A request under the name "Home" was answered with that name, and a later
\* request to the same bucket without a name was answered from the cache with
\* the same fetch's payload under the aggregator's name.
OverrideNoLeakWitness ==
    /\ Len(requests) = 2
    /\ requests[1].key = requests[2].key
    /\ requests[1].overrideName = Some("Home")
    /\ requests[1].resp.status = "ok"
    /\ requests[1].resp.data[1].name = "Home"
    /\ requests[2].overrideName = Null
    /\ requests[2].resp.status = "ok"
    /\ requests[2].resp.meta[1].source = "cache"
    /\ requests[2].resp.data[1].call = requests[1].resp.data[1].call
    /\ requests[2].resp.data[1].name = "City, ST"

\* C12: source tag classification. Every snapshot returned carries a source
\* among "live", "cache" and "stale", the fetchedAt of a result stored in the
\* request's bucket, and ageMs = (time of the response) - fetchedAt >= 0; the
\* source is "cache" exactly when the request awaited no fetch, "live" exactly
\* when the fetch it awaited succeeded, and "stale" exactly when the fetch it
\* awaited failed (and a fallback was returned).
SourceTag ==
    \A r \in DOMAIN requests :
        LET R == requests[r]
            meta == R.resp.meta[1]
        IN  (R.pc = "done" /\ R.resp.status = "ok") =>
               /\ meta.source \in {"live", "cache", "stale"}
               /\ \E f \in Succeeded(R.key) :
                      /\ meta.fetchedAt = toISOString(fetches[f].fetchedAt)
                      /\ meta.ageMs = R.doneAt - fetches[f].fetchedAt
               /\ meta.ageMs >= 0
               /\ (meta.source = "cache") = (R.awaiting = 0)
               /\ (meta.source = "live") =
                     (R.awaiting # 0 /\ fetches[R.awaiting].pc = "settled_ok")
               /\ (meta.source = "stale") =
                     (R.awaiting # 0 /\ fetches[R.awaiting].pc = "settled_err")

\* One request was answered live and a later one, whose fetch failed, was
\* answered stale with a positive age.
SourceTagWitness ==
    \E r1, r2 \in DOMAIN requests :
        /\ requests[r1].resp.status = "ok"
        /\ requests[r1].resp.meta[1].source = "live"
        /\ requests[r2].resp.status = "ok"
        /\ requests[r2].resp.meta[1].source = "stale"
        /\ requests[r2].resp.meta[1].ageMs > 0
        /\ fetches[requests[r2].awaiting].pc = "settled_err"

\* The fetch that produced a stored entry or a response's data.
Producer(data) == fetches[data.call[1]]

\* Fetches, stored entries and responses stay within their caller's kind of
\* bucket.
NamespacesKept ==
    /\ \A f \in DOMAIN fetches :
          (fetches[f].key = DefaultKey) = (fetches[f].loc.kind = "default")
    /\ \A k \in DOMAIN cacheBuckets :
          /\ cacheBuckets[k].cache # Null => Producer(cacheBuckets[k].cache[1].data).key = k
          /\ cacheBuckets[k].lastGood # Null => Producer(cacheBuckets[k].lastGood[1].data).key = k
          /\ cacheBuckets[k].inFlight # 0 => fetches[cacheBuckets[k].inFlight].key = k
    /\ \A r \in DOMAIN requests :
          /\ (requests[r].key = DefaultKey) = (requests[r].loc.kind = "default")
          /\ requests[r].awaiting # 0 =>
                fetches[requests[r].awaiting].loc.kind = requests[r].loc.kind
          /\ requests[r].resp.status = "ok" =>
                Producer(requests[r].resp.data[1]).loc.kind = requests[r].loc.kind

\* C14: the default bucket and the coordinate buckets are disjoint. A call of
\* getWeatherSnapshotByCoords, for any coordinates (the default location's own
\* included), uses a key other than "default" and neither creates nor changes
\* the default bucket; a call of getWeatherSnapshot uses the key "default" and
\* neither creates nor changes a coordinate bucket; the fetch a call starts or
\* joins, every stored entry and every response's data belong to a bucket of
\* the caller's kind.
DisjointNamespaces ==
    [][/\ Arrives =>
             /\ (Arrival.loc.kind = "coords") = (Arrival.key # DefaultKey)
             /\ \A k \in DOMAIN cacheBuckets' :
                   (k = DefaultKey) # (Arrival.key = DefaultKey) =>
                      k \in DOMAIN cacheBuckets /\ cacheBuckets'[k] = cacheBuckets[k]
       /\ NamespacesKept'
      ]_vars

\* The default bucket and the bucket of the default location's coordinates
\* each hold the result of their own fetch.
DisjointNamespacesWitness ==
    /\ Len(requests) = 2
    /\ requests[1].loc = DefaultLoc
    /\ requests[2].loc = CoordLoc(NYC_COORDS.lat, NYC_COORDS.lon)
    /\ requests[1].resp.status = "ok" /\ requests[2].resp.status = "ok"
    /\ DOMAIN cacheBuckets = {DefaultKey, requests[2].key}
    /\ cacheBuckets[DefaultKey].cache # Null
    /\ cacheBuckets[requests[2].key].cache # Null
    /\ cacheBuckets[DefaultKey].cache[1].data.name = "New York, NY"
    /\ cacheBuckets[requests[2].key].cache[1].data.name = "City, ST"

\* A coordinate (1e-4 degree) rounded to 3 decimals, in thousandths.
Round3(x) == IF x >= 0 THEN (x + 5) \div 10 ELSE -((5 - x) \div 10)

SameCell(a, b) == Round3(a[1]) = Round3(b[1]) /\ Round3(a[2]) = Round3(b[2])

\* C13: bucket key derivation. Two coordinate pairs get the same bucket key
\* exactly when they lie in the same 3-decimal rounding cell (latitude and
\* longitude each round to the same value), cells around zero and negative
\* coordinates included.
SameCellSameKey ==
    probe.keys # Null =>
        (SameCell(probe.a, probe.b) = (probe.keys[1][1] = probe.keys[1][2]))

----------------------------------------------------------------------------
(* Properties of the aggregator *)

Ok(answer) == answer.status \in 200..299

\* The four mandatory stages all answer with a 2xx status.
MandatoryOk ==
    Ok(upstream.points) /\ Ok(upstream.forecast) /\ Ok(upstream.hourly) /\ Ok(upstream.stations)

Finished == agg.pc \in {"returned", "failed"}

\* The payload the invocation returned.
Payload == agg.result[1].value[1]

\* The observation requests issued so far.
ObservationRequests ==
    {i \in DOMAIN agg.sent : Len(agg.sent[i]) = 4 /\ agg.sent[i][3] = "observations"}

\* C15: aggregation is all-or-nothing over its mandatory stages. An
\* invocation gets past the point metadata only if that request answered 2xx,
\* and reaches the observation step or returns only if all four mandatory
\* requests answered 2xx; an invocation that has not failed still has a
\* request outstanding or has returned; and a failed invocation carries the
\* error of a request that was not answered 2xx, and no payload.
AllOrNothing ==
    /\ agg.pc = "all" => Ok(upstream.points) /\ \E w \in DOMAIN agg.got : agg.got[w] = Null
    /\ agg.pc \in {"observation", "returned"} => MandatoryOk
    /\ agg.pc = "returned" => agg.result # Null /\ agg.result[1].ok
    /\ (Finished /\ ~MandatoryOk) => agg.pc = "failed"
    /\ agg.pc = "failed" =>
          /\ agg.result # Null
          /\ ~agg.result[1].ok
          /\ agg.result[1].value = Null
          /\ agg.result[1].error[1].url \in
                {agg.sent[i] : i \in DOMAIN agg.sent}
          /\ agg.result[1].error[1].status \notin 200..299

\* The hourly forecast answered 503 after the daily forecast and the station
\* list had arrived: the invocation failed with that request's error.
AllOrNothingWitness ==
    /\ agg.pc = "failed"
    /\ Ok(upstream.points) /\ Ok(upstream.forecast) /\ Ok(upstream.stations)
    /\ upstream.hourly.status = 503
    /\ agg.got.forecast # Null /\ agg.got.stations # Null
    /\ agg.result[1].error[1].url = <<"hourly">>
    /\ agg.result[1].value = Null

Degraded(payload, hours) ==
    /\ payload.current.temperatureF =
          (IF hours = <<>> THEN Null ELSE Some(hours[1].temperature))
    /\ payload.current.condition =
          (IF hours = <<>> THEN "Current conditions" ELSE hours[1].shortForecast)
    /\ payload.current.feelsLikeF = Null
    /\ payload.current.humidity = Null
    /\ payload.current.windSpeedMph = Null
    /\ payload.current.windGustMph = Null
    /\ payload.current.windDirection = Null
    /\ payload.current.dewPointF = Null
    /\ payload.current.pressureInHg = Null
    /\ payload.current.visibilityMiles = Null
    /\ payload.current.observedAt = Null

\* C17: with an empty station list (the mandatory stages having succeeded)
\* the invocation issues no observation request and returns a payload whose
\* current temperature and condition are those of the first hourly period
\* (null and "Current conditions" when there is none) and whose other
\* current-conditions fields are all null; with a non-empty list exactly one
\* observation request is issued, for the first station of the list.
NoStationDegraded ==
    /\ (MandatoryOk /\ upstream.stations.body = <<>>) =>
          /\ ObservationRequests = {}
          /\ agg.pc # "observation"
          /\ Finished =>
                /\ agg.pc = "returned"
                /\ Degraded(Payload, upstream.hourly.body.periods)
    /\ \A i \in ObservationRequests :
          /\ upstream.stations.body # <<>>
          /\ agg.sent[i] = ObservationUrl(upstream.stations.body[1])
    /\ Cardinality(ObservationRequests) <= 1
    /\ (agg.pc \in {"observation", "returned"} /\ upstream.stations.body # <<>>) =>
          Cardinality(ObservationRequests) = 1

\* An invocation returned without a station: the current temperature is the
\* first hourly period's and the humidity is null.
NoStationDegradedWitness ==
    /\ agg.pc = "returned"
    /\ upstream.stations.body = <<>>
    /\ ObservationRequests = {}
    /\ upstream.hourly.body.periods # <<>>
    /\ Payload.current.temperatureF = Some(upstream.hourly.body.periods[1].temperature)
    /\ Payload.current.humidity = Null

\* The last period of the given kind on the day of `key`, as an optional
\* temperature.
LastTemperature(periods, key, daytime) ==
    LET of == {i \in DOMAIN periods :
                  formatDateKey(periods[i].startTime) = key /\ periods[i].isDaytime = daytime}
    IN  IF of = {} THEN Null ELSE Some(periods[Max(of)].temperature)

\* The distinct date keys of the periods.
DateKeys(periods) == {formatDateKey(periods[i].startTime) : i \in DOMAIN periods}

\* C18: daily folding yields one entry per calendar day. No two entries of
\* the returned daily list have the same date key; every period's day has
\* exactly one entry (at most one when the forecast spans more days than the
\* cap); an entry's high and low come from the periods of its own day, the
\* last daytime and the last nighttime one (null when the day has none); and
\* a daytime period of 80 with a nighttime period of 60 on the same day, alone
\* in the forecast, fold to one entry with high 80 and low 60.
OneEntryPerDay ==
    agg.pc = "returned" =>
        LET periods == upstream.forecast.body.periods
            daily == Payload.daily
            KeyOf(i) == formatDateKey(daily[i].date)
        IN  /\ \A i, j \in DOMAIN daily : KeyOf(i) = KeyOf(j) => i = j
            /\ \A k \in DateKeys(periods) :
                  /\ Cardinality({i \in DOMAIN daily : KeyOf(i) = k}) <= 1
                  /\ Cardinality(DateKeys(periods)) <= DailyCap =>
                        Cardinality({i \in DOMAIN daily : KeyOf(i) = k}) = 1
            /\ \A i \in DOMAIN daily :
                  /\ KeyOf(i) \in DateKeys(periods)
                  /\ daily[i].highF = LastTemperature(periods, KeyOf(i), TRUE)
                  /\ daily[i].lowF = LastTemperature(periods, KeyOf(i), FALSE)
            /\ (/\ Len(periods) = 2
                /\ formatDateKey(periods[1].startTime) = formatDateKey(periods[2].startTime)
                /\ periods[1].isDaytime /\ periods[1].temperature = 80
                /\ ~periods[2].isDaytime /\ periods[2].temperature = 60)
                  => /\ Len(daily) = 1
                     /\ daily[1].highF = Some(80)
                     /\ daily[1].lowF = Some(60)

\* A daytime period of 80 and a nighttime period of 60 that are the same day
\* in New York and different days in UTC folded to one entry.
OneEntryPerDayWitness ==
    /\ agg.pc = "returned"
    /\ Len(upstream.forecast.body.periods) = 2
    /\ upstream.forecast.body.periods[1].startTime = 11
    /\ upstream.forecast.body.periods[1].isDaytime
    /\ upstream.forecast.body.periods[2].startTime = 28
    /\ Len(Payload.daily) = 1
    /\ Payload.daily[1].highF = Some(80)
    /\ Payload.daily[1].lowF = Some(55)

\* The days of the forecast that have exactly one daytime and one nighttime
\* period, as <<d, n>>: the positions of the two periods.
DayNightPairs(periods) ==
    {dn \in (DOMAIN periods) \X (DOMAIN periods) :
        /\ periods[dn[1]].isDaytime
        /\ ~periods[dn[2]].isDaytime
        /\ formatDateKey(periods[dn[1]].startTime) = formatDateKey(periods[dn[2]].startTime)
        /\ \A i \in DOMAIN periods :
              formatDateKey(periods[i].startTime) = formatDateKey(periods[dn[1]].startTime)
                 => i \in {dn[1], dn[2]}}

\* C19 as stated: for a forecast that is one day with one daytime and one
\* nighttime period, the entry's high, low, summary and icon are the same
\* whichever of the two periods comes first.
DayNightOrderFree ==
    agg.pc = "returned" =>
        LET periods == upstream.forecast.body.periods
            swapped == <<periods[2], periods[1]>>
        IN  (Len(periods) = 2 /\ DayNightPairs(periods) # {}) =>
               /\ Payload.daily[1].highF = Daily(swapped)[1].highF
               /\ Payload.daily[1].lowF = Daily(swapped)[1].lowF
               /\ Payload.daily[1].summary = Daily(swapped)[1].summary
               /\ Payload.daily[1].icon = Daily(swapped)[1].icon

\* C19, amended: for a day that has exactly one daytime and one nighttime
\* period, the entry's high and icon are the daytime period's and its low the
\* nighttime period's, whichever comes first; its summary is the daytime
\* period's when that is not empty, and otherwise the nighttime period's if
\* the daytime period comes first and empty if the nighttime period comes
\* first.
DayNightFold ==
    agg.pc = "returned" =>
        LET periods == upstream.forecast.body.periods
            daily == Payload.daily
        IN  \A dn \in DayNightPairs(periods) :
               \A i \in DOMAIN daily :
                  formatDateKey(daily[i].date) = formatDateKey(periods[dn[1]].startTime) =>
                     /\ daily[i].highF = Some(periods[dn[1]].temperature)
                     /\ daily[i].lowF = Some(periods[dn[2]].temperature)
                     /\ daily[i].icon = periods[dn[1]].icon
                     /\ daily[i].summary =
                           IF periods[dn[1]].shortForecast # ""
                           THEN periods[dn[1]].shortForecast
                           ELSE IF dn[1] < dn[2]
                           THEN periods[dn[2]].shortForecast
                           ELSE ""

\* A nighttime period followed by the daytime period of the same day: the
\* entry has the daytime period's summary and icon.
DayNightFoldWitness ==
    /\ agg.pc = "returned"
    /\ Len(upstream.forecast.body.periods) = 2
    /\ DayNightPairs(upstream.forecast.body.periods) = {<<2, 1>>}
    /\ upstream.forecast.body.periods[2].shortForecast = "Sunny"
    /\ Len(Payload.daily) = 1
    /\ Payload.daily[1].summary = "Sunny"
    /\ Payload.daily[1].icon = "day.png"
    /\ Payload.daily[1].lowF = Some(60)

\* The positions at which a day appears for the first time.
FirstAppearances(periods) ==
    {i \in DOMAIN periods :
        \A j \in 1..(i - 1) :
           formatDateKey(periods[j].startTime) # formatDateKey(periods[i].startTime)}

\* C20: the returned payload has at most 7 daily entries and at most 48
\* hourly entries: the daily entries are those of the first 7 calendar days
\* in order of first appearance, the hourly entries are the first 48 hourly
\* periods in upstream order.
Capped ==
    agg.pc = "returned" =>
        LET periods == upstream.forecast.body.periods
            hours == upstream.hourly.body.periods
            daily == Payload.daily
            hourly == Payload.hourly
            firsts == FirstAppearances(periods)
        IN  /\ Len(daily) <= 7
            /\ Len(hourly) <= 48
            /\ Len(daily) = IF Cardinality(firsts) < 7 THEN Cardinality(firsts) ELSE 7
            /\ \A i \in DOMAIN daily :
                  \E m \in firsts :
                     /\ Cardinality({x \in firsts : x <= m}) = i
                     /\ daily[i].date = periods[m].startTime
            /\ Len(hourly) = IF Len(hours) < 48 THEN Len(hours) ELSE 48
            /\ \A i \in DOMAIN hourly :
                  /\ hourly[i].time = hours[i].startTime
                  /\ hourly[i].temperatureF = hours[i].temperature

\* A forecast of 8 days and 49 hourly periods came back as 7 days and 48
\* hours.
CappedWitness ==
    /\ agg.pc = "returned"
    /\ Cardinality(DateKeys(upstream.forecast.body.periods)) = 8
    /\ Len(upstream.hourly.body.periods) = 49
    /\ Len(Payload.daily) = 7
    /\ Len(Payload.hourly) = 48
    /\ Payload.daily[7].date = upstream.forecast.body.periods[13].startTime

\* The observation the invocation used: the body of the answer to its
\* observation request, null when it made none.
UsedObservation ==
    IF ObservationRequests = {} THEN Null ELSE Some(upstream.observation.body)

\* C21: feels-like precedence. The returned feels-like temperature is the
\* Fahrenheit value of the observation's heat index if that is not null,
\* otherwise of its wind chill if that is not null, otherwise of its
\* temperature if that is not null, and otherwise null; without an
\* observation it is null. It is never taken from the hourly forecast.
FeelsLikePrecedence ==
    agg.pc = "returned" =>
        LET o == UsedObservation
        IN  Payload.current.feelsLikeF =
               IF o = Null THEN Null
               ELSE IF o[1].heatIndex # Null THEN cToF(o[1].heatIndex)
               ELSE IF o[1].windChill # Null THEN cToF(o[1].windChill)
               ELSE IF o[1].temperature # Null THEN cToF(o[1].temperature)
               ELSE Null

\* An observation with no heat index, a wind chill of 19.8 and a temperature
\* of 21.5: feels-like is 68, the wind chill's value, not the temperature's 71.
FeelsLikePrecedenceWitness ==
    /\ agg.pc = "returned"
    /\ UsedObservation # Null
    /\ upstream.observation.body.heatIndex = Null
    /\ upstream.observation.body.windChill = Some(198)
    /\ upstream.observation.body.temperature = Some(215)
    /\ Payload.current.feelsLikeF = Some(68)
    /\ Payload.current.temperatureF = Some(71)

\* C22: current-temperature precedence. The returned current temperature is
\* the Fahrenheit value of the observation's temperature when an observation
\* was used and its temperature is not null, otherwise the first hourly
\* period's temperature, otherwise null.
CurrentTemperaturePrecedence ==
    agg.pc = "returned" =>
        LET o == UsedObservation
            hours == upstream.hourly.body.periods
        IN  Payload.current.temperatureF =
               IF o # Null /\ o[1].temperature # Null THEN cToF(o[1].temperature)
               ELSE IF hours # <<>> THEN Some(hours[1].temperature)
               ELSE Null

\* An observation without a temperature but with a heat index: the current
\* temperature is the first hourly period's, the feels-like the heat index's.
CurrentTemperaturePrecedenceWitness ==
    /\ agg.pc = "returned"
    /\ UsedObservation # Null
    /\ upstream.observation.body.temperature = Null
    /\ upstream.observation.body.heatIndex = Some(305)
    /\ upstream.hourly.body.periods # <<>>
    /\ Payload.current.temperatureF = Some(upstream.hourly.body.periods[1].temperature)
    /\ Payload.current.feelsLikeF = Some(87)

\* A part of the place name that exists: not missing and not empty.
Exists(part) == part # Null /\ part[1] # ""

\* C23: location name precedence. A non-empty override name is the returned
\* name; otherwise the name is "city, state" when both parts exist, the one
\* part that exists when only one does, and "Unknown" when neither does. An
\* invocation made by getNewYorkWeather returns the name "New York, NY".
NamePrecedence ==
    agg.pc = "returned" =>
        LET city == upstream.points.body.city
            state == upstream.points.body.state
            name == Payload.location.name
        IN  /\ IF agg.overrideName \notin {Null, Some("")} THEN name = agg.overrideName[1]
               ELSE IF Exists(city) /\ Exists(state) THEN name = city[1] \o ", " \o state[1]
               ELSE IF Exists(city) THEN name = city[1]
               ELSE IF Exists(state) THEN name = state[1]
               ELSE name = "Unknown"
            /\ agg.overrideName = Some("New York, NY") => name = "New York, NY"

\* Without an override and with only the state resolved the name is "NJ".
NamePrecedenceWitness ==
    /\ agg.pc = "returned"
    /\ agg.overrideName = Some("")
    /\ upstream.points.body = [city |-> Some(""), state |-> Some("NJ")]
    /\ Payload.location.name = "NJ"

----------------------------------------------------------------------------
(* Properties of the retry loop and of the bucket's fields *)

\* C27: retry schedule and ordering. Within one fetchWithRetry call a fetch
\* starts in its first aggregator invocation at once; an invocation starts
\* only after the one before it has failed and the wait set at that failure
\* (300 ms after the first, 800 ms after the second) has passed, so every
\* earlier invocation has finished when one is outstanding; and every
\* invocation is made for the location of the request that started the fetch.
RetrySchedule ==
    [][ /\ \A f \in DOMAIN fetches' \ DOMAIN fetches :
              /\ fetches'[f].pc = "calling"
              /\ fetches'[f].calls = 1
              /\ fetches'[f].outcomes = <<>>
              /\ fetches'[f].loc = requests'[Len(requests')].loc
        /\ \A f \in DOMAIN fetches :
              LET F == fetches[f]
                  G == fetches'[f]
              IN  /\ f \in DOMAIN fetches'
                  /\ G.loc = F.loc
                  /\ G.calls \in {F.calls, F.calls + 1}
                  /\ G.pc = "calling" => Len(G.outcomes) = G.calls - 1
                  /\ (F.pc = "calling" /\ G.pc = "sleeping") =>
                        /\ G.outcomes = Append(F.outcomes, "fail")
                        /\ F.calls = 1 => G.wakeAt = now + 300
                        /\ F.calls = 2 => G.wakeAt = now + 800
                        /\ F.calls < 3
                  /\ (F.pc = "sleeping" /\ G.pc = "sleeping") => G.wakeAt = F.wakeAt
                  /\ G.calls = F.calls + 1 =>
                        /\ F.pc = "sleeping"
                        /\ G.pc = "calling"
                        /\ now >= F.wakeAt
                        /\ now' = now
                        /\ F.outcomes[F.calls] = "fail"
                  /\ (F.pc = "calling" /\ G.pc = "fulfilled") =>
                        G.value = Some(AggregatorResult(<<f, F.calls>>, F.loc))
      ]_vars

\* A fetch started at time 0 is in its third invocation at 1100 ms, after
\* two failures.
RetryScheduleWitness ==
    \E f \in DOMAIN fetches :
        /\ fetches[f].pc = "calling"
        /\ fetches[f].calls = 3
        /\ fetches[f].outcomes = <<"fail", "fail">>
        /\ now = 1100

\* The fields of the bucket of key k; a bucket not yet created has none set.
Fields(buckets, k) == IF k \in DOMAIN buckets THEN buckets[k] ELSE NewBucket

\* C28: bucket writes are confined to fetch completion. A bucket's fresh
\* entry and lastGood change only in the step in which the bucket's in-flight
\* fetch succeeds, and then both become that fetch's value and time; a
\* request served from the fresh entry leaves fresh, lastGood and inFlight of
\* every bucket as they were, and so does a request that joins an in-flight
\* fetch.
WritesConfined ==
    [][ /\ \A k \in DOMAIN cacheBuckets' :
              LET old == Fields(cacheBuckets, k)
                  new == cacheBuckets'[k]
              IN  (new.cache # old.cache \/ new.lastGood # old.lastGood) =>
                      /\ old.inFlight # 0
                      /\ fetches[old.inFlight].key = k
                      /\ fetches[old.inFlight].pc = "calling"
                      /\ fetches'[old.inFlight].pc = "fulfilled"
                      /\ new.cache = Some([data |-> fetches'[old.inFlight].value[1],
                                           fetchedAt |-> now])
                      /\ new.lastGood = new.cache
                      /\ new.inFlight = old.inFlight
        /\ Len(requests') > Len(requests) =>
              LET R == requests'[Len(requests')]
              IN  (R.pc = "done" \/ ~R.started) =>
                      \A k \in DOMAIN cacheBuckets' :
                          cacheBuckets'[k] = Fields(cacheBuckets, k)
      ]_vars

\* A request was served from the fresh entry of a bucket that holds what its
\* fetch stored.
WritesConfinedWitness ==
    \E r \in DOMAIN requests :
        LET R == requests[r]
            bucket == cacheBuckets[R.key]
        IN  /\ R.pc = "done"
            /\ R.resp.status = "ok"
            /\ R.resp.meta[1].source = "cache"
            /\ bucket.cache # Null
            /\ bucket.lastGood = bucket.cache
            /\ bucket.inFlight = 0
            /\ \E f \in DOMAIN fetches :
                  /\ fetches[f].key = R.key
                  /\ bucket.cache[1] = [data |-> fetches[f].value[1],
                                        fetchedAt |-> fetches[f].fetchedAt]

\* While fetch f runs, its bucket's slot names it, the bucket has no other
\* unfinished fetch, and every request waiting for it is pending.
SlotHeld(f) ==
    LET F == fetches[f]
    IN  /\ cacheBuckets[F.key].inFlight = f
        /\ \A g \in DOMAIN fetches \ {f} :
              fetches[g].key = F.key => fetches[g].pc \in Settled
        /\ \A r \in DOMAIN requests :
              requests[r].awaiting = f =>
                  requests[r].pc = "awaiting" /\ requests[r].resp = Pending

\* C30: a hung upstream call blocks its bucket's in-flight slot. While a
\* bucket's fetch has neither resolved nor rejected, the slot names it and no
\* second fetch of the bucket is started; a request to the bucket whose fresh
\* entry is absent or expired joins the fetch and stays pending, answered
\* neither from lastGood nor with an error; and nothing but an answer of the
\* upstream call or the end of a retry wait moves the fetch on: the passing
\* of time releases nothing.
HungCallBlocks ==
    /\ [](\A f \in DOMAIN fetches : fetches[f].pc \in Running => SlotHeld(f))
    /\ [][ \A f \in DOMAIN fetches :
              fetches[f].pc \in Running =>
                  /\ (fetches'[f].pc # fetches[f].pc) =>
                        \/ /\ fetches[f].pc = "calling"
                           /\ Len(fetches'[f].outcomes) = Len(fetches[f].outcomes) + 1
                        \/ /\ fetches[f].pc = "sleeping"
                           /\ fetches'[f].pc = "calling"
                           /\ now >= fetches[f].wakeAt
                  /\ (fetches'[f].pc \in Running) =>
                        /\ cacheBuckets'[fetches[f].key].inFlight = f
                        /\ \A g \in DOMAIN fetches' \ DOMAIN fetches :
                              fetches'[g].key # fetches[f].key
                        /\ Len(requests') > Len(requests) =>
                              LET R == requests'[Len(requests')]
                              IN  R.key = fetches[f].key =>
                                      /\ ~IsFresh(cacheBuckets[R.key], now)
                                      /\ R.awaiting = f
                                      /\ ~R.started
                                      /\ R.pc = "awaiting"
                                      /\ R.resp = Pending
          ]_vars

\* A bucket holds a usable lastGood entry whose fresh window has passed; the
\* request that found it so started a fetch, time has passed since, the
\* upstream call has not answered, and the request is still pending.
HungCallBlocksWitness ==
    \E r \in DOMAIN requests :
        LET R == requests[r]
            bucket == cacheBuckets[R.key]
        IN  /\ R.pc = "awaiting"
            /\ R.resp = Pending
            /\ R.now < now
            /\ bucket.inFlight = R.awaiting
            /\ fetches[R.awaiting].pc = "calling"
            /\ fetches[R.awaiting].outcomes = <<>>
            /\ bucket.lastGood # Null
            /\ ~IsFresh(bucket, R.now)
            /\ FallbackUsable(Fallback(bucket), R.now)

\* Request r has completed in one of the four ways: from the fresh entry,
\* with the value of the fetch it awaited, from the fallback entry, or with
\* the error of the fetch it awaited.
Completed(r) ==
    /\ r \in DOMAIN requests
    /\ requests[r].pc = "done"
    /\ LET R == requests[r]
       IN  \/ /\ R.resp.status = "ok"
              /\ R.resp.meta[1].source \in {"cache", "live", "stale"}
              /\ R.awaiting = 0 <=> R.resp.meta[1].source = "cache"
           \/ /\ R.resp.status = "error"
              /\ R.awaiting # 0
              /\ R.resp.error = fetches[R.awaiting].lastError

\* C29: termination. Provided every aggregator invocation is answered, every
\* request, whether it started a fetch or joined one, eventually completes
\* with a cache, live or stale response or with the propagated error; a
\* completed request stays as it completed.
Termination ==
    /\ \A r \in 1..MaxRequests : (r \in DOMAIN requests) ~> Completed(r)
    /\ [](\A r \in DOMAIN requests : requests[r].pc = "done" => Completed(r))
    /\ [][\A r \in DOMAIN requests :
              requests[r].pc = "done" => requests'[r] = requests[r]]_vars

\* Two requests have completed after all three attempts of their fetch
\* failed and both retry waits passed: the one that started the fetch and
\* the one that joined it.
TerminationWitness ==
    /\ Len(requests) = 2
    /\ requests[1].awaiting = requests[2].awaiting
    /\ requests[1].started
    /\ ~requests[2].started
    /\ fetches[requests[1].awaiting].outcomes = <<"fail", "fail", "fail">>
    /\ Completed(1)
    /\ Completed(2)
    /\ requests[1].resp.status = "error"

\* The keys of the buckets a step acts on: that of an arriving request, of a
\* request that resumes, and of a fetch that moves on.
ActingKeys ==
    {requests'[r].key : r \in {q \in DOMAIN requests' :
                                 q \notin DOMAIN requests \/ requests'[q] # requests[q]}}
    \cup {fetches[f].key : f \in {g \in DOMAIN fetches : fetches'[g] # fetches[g]}}

\* C32: bucket isolation. A request, a fetch success or a fetch failure on
\* one bucket leaves the fresh entry, lastGood and in-flight marker of every
\* other bucket as they were; a request waits only on a fetch of its own
\* bucket and is answered only with the result of such a fetch.
BucketIsolation ==
    /\ [](\A r \in DOMAIN requests :
            LET R == requests[r]
            IN  /\ R.awaiting # 0 => fetches[R.awaiting].key = R.key
                /\ (R.pc = "done" /\ R.resp.status = "ok") =>
                      /\ R.resp.data[1].call[1] \in DOMAIN fetches
                      /\ fetches[R.resp.data[1].call[1]].key = R.key)
    /\ [][ /\ Cardinality(ActingKeys) <= 1
           /\ \A k \in DOMAIN cacheBuckets' :
                 cacheBuckets'[k] # Fields(cacheBuckets, k) => k \in ActingKeys
         ]_vars

\* Fetches of two buckets were outstanding together; one has stored its
\* result in its bucket and cleared the marker, while the other bucket is
\* still empty and marked with its own fetch.
BucketIsolationWitness ==
    \E f, g \in DOMAIN fetches :
        /\ fetches[f].key # fetches[g].key
        /\ fetches[f].pc = "settled_ok"
        /\ fetches[f].fetchedAt = 0
        /\ cacheBuckets[fetches[f].key].cache # Null
        /\ cacheBuckets[fetches[f].key].inFlight = 0
        /\ fetches[g].pc = "calling"
        /\ now = 0
        /\ cacheBuckets[fetches[g].key] = [NewBucket EXCEPT !.inFlight = g]

\* An entry never becomes absent and its fetchedAt never decreases.
EntryKept(old, new) ==
    old # Null => (new # Null /\ new[1].fetchedAt >= old[1].fetchedAt)

\* C33: bucket state is monotonic. Over every step a bucket of the map stays
\* in the map, a fresh entry or lastGood that is set stays set, and the
\* fetchedAt stored in either never decreases.
BucketMonotonic ==
    [][\A k \in DOMAIN cacheBuckets :
          /\ k \in DOMAIN cacheBuckets'
          /\ EntryKept(cacheBuckets[k].cache, cacheBuckets'[k].cache)
          /\ EntryKept(cacheBuckets[k].lastGood, cacheBuckets'[k].lastGood)
      ]_vars

\* A bucket's entry of time 0 has been replaced by the result of a second
\* fetch, stored when the fresh window of the first had ended.
BucketMonotonicWitness ==
    \E f, g \in DOMAIN fetches :
        /\ fetches[f].key = fetches[g].key
        /\ fetches[f].pc = "settled_ok"
        /\ fetches[f].fetchedAt = 0
        /\ fetches[g].pc = "settled_ok"
        /\ fetches[g].fetchedAt = CACHE_TTL_MS
        /\ cacheBuckets[fetches[g].key].cache # Null
        /\ cacheBuckets[fetches[g].key].cache[1].fetchedAt = CACHE_TTL_MS
        /\ cacheBuckets[fetches[g].key].lastGood = cacheBuckets[fetches[g].key].cache

----------------------------------------------------------------------------
(* Properties of the conversion utilities *)

\* The compass point at position i (from 0) of the 16-point table.
CompassPoint(i) ==
    <<"N", "NNE", "NE", "ENE", "E", "ESE", "SE", "SSE",
      "S", "SSW", "SW", "WSW", "W", "WNW", "NW", "NNW">>[i + 1]

\* C24: cardinal direction. For every whole degree value d in 0..360,
\* degreesToCardinal(d) is the compass point at position
\* round(d / 22.5) mod 16; 0 gives "N", 90 "E", 359 and 360 "N".
CardinalDirection ==
    (probe.fn = "degreesToCardinal" /\ probe.done /\ probe.x # Null) =>
        LET d == probe.x[1] \div 10
        IN  (probe.x[1] = 10 * d /\ d \in 0..360) =>
               /\ probe.y = Some(CompassPoint(((4 * d + 45) \div 90) % 16))
               /\ d = 0 => probe.y = Some("N")
               /\ d = 90 => probe.y = Some("E")
               /\ d = 359 => probe.y = Some("N")
               /\ d = 360 => probe.y = Some("N")

\* degreesToCardinal(359) returned "N".
CardinalDirectionWitness ==
    /\ probe.fn = "degreesToCardinal"
    /\ probe.done
    /\ probe.x = Some(3590)
    /\ probe.y = Some("N")

\* C25: every conversion utility is total over number | null. Null gives
\* null, and every number, negative ones included, gives a defined result:
\* one of the 16 compass points from degreesToCardinal, a number from the
\* others.
ConversionsTotal ==
    (probe.done /\ probe.fn # "formatTemp") =>
        IF probe.x = Null THEN probe.y = Null
        ELSE /\ Len(probe.y) = 1
             /\ probe.fn = "degreesToCardinal" =>
                   \E i \in 0..15 : probe.y[1] = CompassPoint(i)
             /\ probe.fn # "degreesToCardinal" => probe.y[1] \in Int

\* C26: temperature round trip. A whole Fahrenheit value shown in Celsius by
\* formatTemp and converted back by cToF is within 1 degree of the value;
\* and cToF gives 32, 99 and -40 for the Celsius values 0, 37 and -40.
TemperatureRoundTrip ==
    /\ (probe.fn = "formatTemp" /\ probe.done /\ probe.x # Null) =>
          /\ probe.y[2] # Null
          /\ probe.y[2][1] - probe.x[1] \in {-1, 0, 1}
    /\ (probe.fn = "cToF" /\ probe.done) =>
          /\ probe.x = Some(0) => probe.y = Some(32)
          /\ probe.x = Some(370) => probe.y = Some(99)
          /\ probe.x = Some(-400) => probe.y = Some(-40)

\* 33 degrees Fahrenheit is shown as 1 degree Celsius, which converts back
\* to 34.
TemperatureRoundTripWitness ==
    /\ probe.fn = "formatTemp"
    /\ probe.done
    /\ probe.x = Some(33)
    /\ probe.y = <<<<1, "C">>, Some(34)>>

----------------------------------------------------------------------------
(* Properties of the subscriber store and the digest route *)

\* The emails digest run c has sent.
MailOf(c) == {m \in outbox : m.call = c}

\* The record with this token in an array, if there is one.
ByToken(subscribers, token) ==
    {subscribers[i] : i \in {j \in 1..Len(subscribers) : subscribers[j].token = token}}

\* C35: digest at most once per local day. A run that is not forced emails a
\* subscriber only when the hour in the subscriber's zone is 7 and
\* lastSentOn, as the run read it, is not the local date; when a run that
\* emailed a subscriber saves, the file holds that local date as the
\* subscriber's lastSentOn; and a run that is not forced and reads the file
\* after that run has returned sends the subscriber nothing on the same
\* local date.
DigestOncePerDay ==
    /\ [](\A m \in outbox :
            LET C == calls[m.call]
            IN  /\ ~C.force =>
                      \A sub \in ByToken(C.read, m.token) :
                          /\ getLocalHour(C.date, sub.timezone) = 7
                          /\ sub.lastSentOn # Some(m.on)
                /\ \A n \in outbox :
                      (n.token = m.token /\ n.on = m.on /\ ~C.force) =>
                          n.call \notin C.after)
    /\ [][\A c \in DOMAIN calls :
              (calls[c].op = "digest" /\ calls[c].pc = "write" /\ calls'[c].pc = "done") =>
                  \A m \in MailOf(c) :
                      \A sub \in ByToken(file', m.token) : sub.lastSentOn = Some(m.on)
        ]_vars

\* C36: digest failure isolation. When a run's tasks have ended, the emails
\* it has sent are those of the due subscribers whose task succeeded,
\* whatever became of the others; the array it saves is the array it read
\* with lastSentOn set to the local date for the subscribers emailed and
\* every other record as read; and the count it reports is the number of
\* subscribers emailed.
FailureIsolation ==
    \A c \in DOMAIN calls :
        LET C == calls[c]
            mailed == {m.token : m \in MailOf(c)}
        IN  (C.op = "digest" /\ C.pc \in {"write", "done"}) =>
               /\ C.result = <<TRUE, Cardinality(MailOf(c))>>
               /\ mailed \subseteq {C.read[i].token : i \in C.due}
               /\ mailed # {} =>
                     /\ Len(C.list) = Len(C.read)
                     /\ \A i \in 1..Len(C.read) :
                           C.list[i] =
                              IF C.read[i].token \in mailed
                              THEN [C.read[i] EXCEPT !.lastSentOn =
                                       Some(getLocalDate(C.date, C.read[i].timezone))]
                              ELSE C.read[i]

\* A forced run over two subscribers has returned: one task failed, the
\* other subscriber was emailed, the run reports 1 and the file it saved
\* holds lastSentOn for the subscriber emailed and none for the other.
FailureIsolationWitness ==
    \E c \in DOMAIN calls :
        /\ calls[c].op = "digest"
        /\ calls[c].pc = "done"
        /\ Cardinality(calls[c].due) = 2
        /\ Cardinality(MailOf(c)) = 1
        /\ calls[c].result = <<TRUE, 1>>
        /\ file = calls[c].list
        /\ \E i, j \in 1..Len(file) :
              /\ file[i].lastSentOn # Null
              /\ file[j].lastSentOn = Null

\* C37: unsubscribe is durable. Once removeSubscriberByToken(token) has
\* returned true, the file holds no record with that token.
UnsubscribeDurable ==
    \A c \in DOMAIN calls :
        (calls[c].op = "remove" /\ calls[c].pc = "done" /\ calls[c].result = <<TRUE>>) =>
            ByToken(file, calls[c].token) = {}

\* C38: subscriber identity. The file holds at most one record per
\* normalized email. A call of addSubscriber whose email is in the array it
\* read answers "Already subscribed" and writes that array with the one
\* record changed: token, subscribedAt and lastSentOn kept, and location,
\* unit and timezone replaced by the options given and kept where none is
\* given; any other valid call writes the array with one new record.
SubscriberIdentity ==
    /\ \A i, j \in 1..Len(file) :
          /\ file[i].email = normalizeEmail(file[i].email)
          /\ i # j => file[i].email # file[j].email
    /\ \A c \in DOMAIN calls :
          LET C == calls[c]
              present == {i \in 1..Len(C.read) : C.read[i].email = C.email}
          IN  (C.op = "add" /\ C.pc \in {"write", "done"} /\ C.result[1]) =>
                 /\ C.email = normalizeEmail(C.email)
                 /\ (C.result[2] = "Already subscribed") <=> (present # {})
                 /\ present # {} =>
                       /\ Len(C.list) = Len(C.read)
                       /\ \A i \in 1..Len(C.read) :
                             LET old == C.read[i]
                                 new == C.list[i]
                             IN  IF i \in present
                                 THEN /\ new.email = old.email
                                      /\ new.token = old.token
                                      /\ new.subscribedAt = old.subscribedAt
                                      /\ new.lastSentOn = old.lastSentOn
                                      /\ new.location = IF C.options.location # Null
                                                        THEN C.options.location
                                                        ELSE old.location
                                      /\ new.unit = IF C.options.unit # Null
                                                    THEN C.options.unit[1] ELSE old.unit
                                      /\ new.timezone = IF C.options.timezone # Null
                                                        THEN C.options.timezone[1]
                                                        ELSE old.timezone
                                 ELSE new = old
                 /\ present = {} =>
                       /\ C.result[2] = "Subscribed"
                       /\ Len(C.list) = Len(C.read) + 1
                       /\ SubSeq(C.list, 1, Len(C.read)) = C.read
                       /\ C.list[Len(C.list)].email = C.email

\* A subscriber that has a location, a unit and a zone of its own was added
\* again without options, after a digest had set lastSentOn: the call
\* answered "Already subscribed" and the file still holds the one record
\* with all of them.
SubscriberIdentityWitness ==
    \E c \in DOMAIN calls :
        /\ calls[c].op = "add"
        /\ calls[c].pc = "done"
        /\ calls[c].result = <<TRUE, "Already subscribed">>
        /\ calls[c].options = NoOptions
        /\ file = calls[c].list
        /\ Len(file) = 1
        /\ file[1].location # Null
        /\ file[1].unit = "C"
        /\ file[1].timezone = "Asia/Tokyo"
        /\ file[1].token = 1
        /\ file[1].lastSentOn # Null

====
